---- MODULE Spec2Model ----
(***************************************************************************)
(* A model of the chai-backend request handlers (likes, subscriptions,     *)
(* videos, comments, tweets, playlists) over the document store.           *)
(*                                                                         *)
(* Every handler is an async function: it runs synchronously up to its     *)
(* first await, and every awaited store round-trip is one atomic step of   *)
(* the store.  Each request slot p of Procs runs one handler at a time;    *)
(* pc[p] is the await the handler is suspended at.                         *)
(***************************************************************************)
EXTENDS Integers, Sequences, FiniteSets, TLC

\* ------------------------------------------------------------------ bounds
\* Like documents the store ever creates in one run.
MaxLikeDocs == 2
\* Views a video's counter is followed up to.
MaxAccounts == 3
MaxTokens == 2
MaxViews == 2
\* Videos published on top of the seeded ones.
MaxPublished == 1

\* ------------------------------------------------------------------ identities
Procs == {"r1", "r2"}

Users == {"u1", "u2"}
\* req.user is undefined: no authenticated actor.
NoUser == "anon"
Actors == Users \cup {NoUser}

\* A well-formed ObjectId that matches no document, and a malformed id.
AbsentId == "x0"
BadId == "bad"

Null == [k |-> "null"]
NoData == [k |-> "empty"]

VARIABLES videos, comments, tweets, playlists, likes, subs, nextLikeId,
          accounts, issued,
          pc, req, loc, resp, hist, seen

store == <<videos, comments, tweets, playlists, likes, subs, nextLikeId>>
userStore == <<accounts, issued>>
vars == <<videos, comments, tweets, playlists, likes, subs, nextLikeId,
          accounts, issued,
          pc, req, loc, resp, hist, seen>>

\* ------------------------------------------------------------------ utilities
isValidObjectId(id) ==
    id # BadId

\* A string in the body of a response.  An object is a record of its own
\* fields, so a string and an object in the same place can be told apart.
Text(string) == [text |-> string]

\* new ApiResponse(statusCode, data, message): success = statusCode < 400.
ApiResponse(statusCode, data, message) ==
    [statusCode |-> statusCode, data |-> data, message |-> message,
     success |-> statusCode < 400]

\* throw new ApiError(statusCode, message), forwarded by asyncHandler to the
\* error responder.
ApiError(statusCode, message) ==
    [statusCode |-> statusCode, data |-> NoData, message |-> Text(message),
     success |-> FALSE]

\* A TypeError / ReferenceError raised inside a handler: an uncategorized
\* failure, answered with status 500.
UncaughtError(message) ==
    [statusCode |-> 500, data |-> NoData, message |-> Text(message),
     success |-> FALSE]

\* A field the request does not carry.
Absent == ""

\* A JavaScript number: an integer, or NaN.
Number(num) == [num |-> num, nan |-> FALSE]
NaN == [num |-> 0, nan |-> TRUE]

\* Texts a query string may carry for page and limit.
QueryTexts == {"1", "2", "abc", "0", "-2"}

\* parseInt on those texts.
ParseInt(text) ==
    CASE text = "1" -> Number(1)
      [] text = "2" -> Number(2)
      [] text = "0" -> Number(0)
      [] text = "-2" -> Number(0 - 2)
      [] OTHER -> NaN

\* const { page = 1, limit = 10 } = req.query and parseInt(page),
\* parseInt(limit): the default stands in for a value that was not sent, and
\* parseInt of a number is that number.
DefaultPage == 1
DefaultLimit == 10
QueryNumber(text, default) ==
    IF text = Absent THEN Number(default) ELSE ParseInt(text)

\* Text a request body carries: text with surrounding blanks, or only blanks.
Contents == {" new ", "  "}

\* String.prototype.trim on those texts.
Trim(text) ==
    CASE text = " new " -> "new"
      [] text = "  " -> ""
      [] OTHER -> text

\* A lookup by { _id: id } alone, blind to the owner.
FindOwned_AnyOwner(coll, id, actor) ==
    IF id \in DOMAIN coll THEN coll[id] ELSE Null

\* Model.findOne({ _id: id, owner: actor }): the document, or Null.
FindOwned(coll, id, actor) ==
    IF id \in DOMAIN coll /\ coll[id].owner = actor THEN coll[id] ELSE Null

Unauthorized == ApiError(401, "Unauthorized: User not logged in")

Idle(p) == pc[p] \in {"idle", "done"}

\* The request slot p ends its handler with response r.
Finish(p, r) ==
    /\ pc' = [pc EXCEPT ![p] = "done"]
    /\ resp' = [resp EXCEPT ![p] = r]
    /\ loc' = [loc EXCEPT ![p] = Null]
    /\ UNCHANGED <<req, seen>>

\* What an owner-filtered query { _id: id, owner: actor } met: no document
\* with that id, a document of another owner, or the actor's own document.
LookupCase(coll, id, actor) ==
    IF id \notin DOMAIN coll THEN "absent"
    ELSE IF coll[id].owner # actor THEN "notowner"
    ELSE "owner"

\* As Finish; the slot remembers what the handler's owner-filtered query met.
FinishCase(p, r, case) ==
    /\ pc' = [pc EXCEPT ![p] = "done"]
    /\ resp' = [resp EXCEPT ![p] = r]
    /\ loc' = [loc EXCEPT ![p] = [k |-> "lookup", case |-> case]]
    /\ UNCHANGED <<req, seen>>

Goto(p, label, l) ==
    /\ pc' = [pc EXCEPT ![p] = label]
    /\ loc' = [loc EXCEPT ![p] = l]
    /\ UNCHANGED <<resp, req, seen>>

\* The answered request on slot p was refused by its owner-filtered query.
LookupRefused(p) ==
    /\ pc[p] = "done"
    /\ loc[p] # Null
    /\ loc[p].k = "lookup"
    /\ loc[p].case \in {"absent", "notowner"}

\* seen keeps the refused run that slot p has just answered while the next
\* request on the slot is for the same handler, so that the two answers can
\* be compared.
SeenNext(p, rq) ==
    IF LookupRefused(p) /\ req[p].h = rq.h
    THEN [resp |-> resp[p], case |-> loc[p].case, h |-> req[p].h]
    ELSE Null

\* A new request arrives on slot p: its handler either answers at once, or
\* suspends at its first await with no response sent yet.
StartFinish(p, rq, r) ==
    /\ pc' = [pc EXCEPT ![p] = "done"]
    /\ resp' = [resp EXCEPT ![p] = r]
    /\ loc' = [loc EXCEPT ![p] = Null]
    /\ req' = [req EXCEPT ![p] = rq]
    /\ seen' = SeenNext(p, rq)

StartGoto(p, rq, label) ==
    /\ pc' = [pc EXCEPT ![p] = label]
    /\ loc' = [loc EXCEPT ![p] = Null]
    /\ req' = [req EXCEPT ![p] = rq]
    /\ resp' = [resp EXCEPT ![p] = Null]
    /\ seen' = SeenNext(p, rq)

Request(h, actor, id, id2, body) ==
    [id |-> id, actor |-> actor, h |-> h, id2 |-> id2, body |-> body]

\* ------------------------------------------------------------------ the seeded store
\* Documents present when the server starts serving.
SeedVideos ==
    [v \in {"v1", "v2"} |->
        [owner |-> IF v = "v1" THEN "u1" ELSE "u2",
         title |-> "old", description |-> "old",
         thumbnail |-> "old", isPublished |-> TRUE, views |-> 0]]

SeedComments ==
    [c \in {"c1"} |-> [owner |-> "u1", video |-> "v1", content |-> "old"]]

SeedTweets ==
    [t \in {"t1"} |-> [owner |-> "u1", content |-> "old"]]

SeedPlaylists ==
    [l \in {"p1"} |->
        [videos |-> <<"v2">>, owner |-> "u1", description |-> "old",
         name |-> "old"]]

\* The password hash the Account model stores for a password.
Hash(password) == <<"hash", password>>

\* The registered accounts: handle, email, display name, password hash,
\* avatar, cover image and session (refresh) credential.
SeedAccounts ==
    [u \in Users |->
        [password |-> Hash("pw"),
         username |-> IF u = "u1" THEN "alice" ELSE "bob",
         email |-> IF u = "u1" THEN "a@x" ELSE "b@x", fullName |-> "old",
         avatar |-> "old", coverImage |-> "old", refreshToken |-> Null]]

IdsOf(coll) == DOMAIN coll

\* Model.findById(id): the document, or Null.
FindById(coll, id) ==
    IF id \in DOMAIN coll THEN coll[id] ELSE Null

Exists(coll, id) == id \in DOMAIN coll

Remove(coll, id) ==
    [x \in (DOMAIN coll) \ {id} |-> coll[x]]

\* ------------------------------------------------------------------ likes
LikeKinds == {"video", "comment", "tweet"}

LikeHandler(kind) ==
    CASE kind = "video" -> "toggleVideoLike"
      [] kind = "comment" -> "toggleCommentLike"
      [] kind = "tweet" -> "toggleTweetLike"

LikeHandlers == {LikeHandler(k) : k \in LikeKinds}

KindOf(h) == CHOOSE k \in LikeKinds : LikeHandler(k) = h

InvalidIdMessage(kind) ==
    CASE kind = "video" -> "Invalid video ID"
      [] kind = "comment" -> "Invalid comment ID"
      [] kind = "tweet" -> "Invalid tweet ID"

TargetNotFoundMessage(kind) ==
    CASE kind = "video" -> "Video not found"
      [] kind = "comment" -> "Comment not found"
      [] kind = "tweet" -> "Tweet not found"

UnlikedMessage(kind) ==
    CASE kind = "video" -> "Video unliked successfully"
      [] kind = "comment" -> "Comment unliked successfully"
      [] kind = "tweet" -> "Tweet unliked successfully"

LikedMessage(kind) ==
    CASE kind = "video" -> "Video liked successfully"
      [] kind = "comment" -> "Comment liked successfully"
      [] kind = "tweet" -> "Tweet liked successfully"

\* The collection a like of this kind points into.
TargetColl(kind) ==
    CASE kind = "video" -> videos
      [] kind = "comment" -> comments
      [] kind = "tweet" -> tweets

TargetIds(kind) ==
    CASE kind = "video" -> {"v1"}
      [] kind = "comment" -> {"c1"}
      [] kind = "tweet" -> {"t1"}

\* The Like documents matching likeCondition = { <kind>: id, likedBy }.
LikesMatching(kind, id, actor) ==
    {l \in likes : l.kind = kind /\ l.target = id /\ l.likedBy = actor}

MinId(S) == CHOOSE l \in S : \A m \in S : l.id <= m.id

\* Like.findOne(likeCondition): the first matching document in insertion
\* order; its _id, or 0 for null.
LikeFindOne(kind, id, actor) ==
    IF LikesMatching(kind, id, actor) = {} THEN 0
    ELSE MinId(LikesMatching(kind, id, actor)).id

\* The Like schema declares no unique index on (target, likedBy): create
\* inserts whatever it is given.  The run is followed up to MaxLikeDocs
\* created documents.
LikeCreate(kind, id, actor) ==
    /\ nextLikeId <= MaxLikeDocs
    /\ likes' = likes \cup
          {[id |-> nextLikeId, kind |-> kind, target |-> id, likedBy |-> actor]}
    /\ nextLikeId' = nextLikeId + 1

\* Like.findByIdAndDelete(_id): removes that document if it is still there.
LikeFindByIdAndDelete(lid) ==
    /\ likes' = {l \in likes : l.id # lid}
    /\ UNCHANGED nextLikeId

\* hist follows a run of like toggles on one (actor, target) during which no
\* other request takes a step: the slot that runs, the membership before the
\* first toggle, and the parity of the number of toggles finished since.
\* Any step of another request, and any toggle that ends in an error, ends
\* the run.
HistStep(p) ==
    hist' =
      IF Idle(p)
      THEN IF pc'[p] = "like_target" /\ (\A q \in Procs : Idle(q))
           THEN LET r == req'[p]
                    kind == KindOf(r.h)
                IN IF /\ hist # Null /\ hist.kind = kind
                      /\ hist.actor = r.actor /\ hist.target = r.id
                   THEN [hist EXCEPT !.runner = p]
                   ELSE [actor |-> r.actor, kind |-> kind, target |-> r.id,
                         runner |-> p,
                         before |-> (LikesMatching(kind, r.id, r.actor) # {}),
                         n |-> 0]
           ELSE Null
      ELSE IF hist # Null /\ hist.runner = p
           THEN IF pc[p] = "like_write"
                THEN [hist EXCEPT !.n = (hist.n + 1) % 2]
                ELSE IF pc'[p] = "done" THEN Null ELSE hist
           ELSE Null

\* toggleVideoLike / toggleCommentLike / toggleTweetLike up to the first await:
\* the 401 and 400 checks.
ToggleLikeStart(p, kind, actor, id) ==
    /\ Idle(p)
    /\ LET rq == Request(LikeHandler(kind), actor, id, AbsentId, NoData) IN
       IF actor = NoUser
       THEN StartFinish(p, rq, Unauthorized)
       ELSE IF ~isValidObjectId(id)
       THEN StartFinish(p, rq, ApiError(400, InvalidIdMessage(kind)))
       ELSE StartGoto(p, rq, "like_target")
    /\ HistStep(p)
    /\ UNCHANGED userStore
    /\ UNCHANGED store

\* await Video.findById(videoId) (Comment.findById, Tweet.findById) and the
\* 404 check.
ToggleLikeTarget(p) ==
    /\ pc[p] = "like_target"
    /\ LET kind == KindOf(req[p].h) IN
       IF ~Exists(TargetColl(kind), req[p].id)
       THEN Finish(p, ApiError(404, TargetNotFoundMessage(kind)))
       ELSE Goto(p, "like_find", Null)
    /\ HistStep(p)
    /\ UNCHANGED userStore
    /\ UNCHANGED store

\* const existingLike = await Like.findOne(likeCondition)
ToggleLikeFind(p) ==
    /\ pc[p] = "like_find"
    /\ Goto(p, "like_write",
            [k |-> "like",
             id |-> LikeFindOne(KindOf(req[p].h), req[p].id, req[p].actor)])
    /\ HistStep(p)
    /\ UNCHANGED userStore
    /\ UNCHANGED store

\* if (existingLike) findByIdAndDelete else create; then the 200 response
\* with isLiked: !existingLike.
ToggleLikeWrite(p) ==
    /\ pc[p] = "like_write"
    /\ IF loc[p].id # 0
       THEN /\ LikeFindByIdAndDelete(loc[p].id)
            /\ Finish(p, ApiResponse(200, [isLiked |-> FALSE],
                                     Text(UnlikedMessage(KindOf(req[p].h)))))
       ELSE /\ LikeCreate(KindOf(req[p].h), req[p].id, req[p].actor)
            /\ Finish(p, ApiResponse(200, [isLiked |-> TRUE],
                                     Text(LikedMessage(KindOf(req[p].h)))))
    /\ HistStep(p)
    /\ UNCHANGED userStore
    /\ UNCHANGED <<videos, comments, tweets, playlists, subs>>

\* The published videos that have a Like document of the actor.
LikedPublished(actor) ==
    {v \in DOMAIN videos :
        /\ videos[v].isPublished
        /\ LikesMatching("video", v, actor) # {}}

\* getLikedVideos up to its await: the 401 check; parseInt of page and
\* limit; the pipeline is only built here.
GetLikedVideosStart(p, actor, page, limit) ==
    /\ Idle(p)
    /\ LET rq == Request("getLikedVideos", actor, AbsentId, AbsentId,
                         [page |-> page, limit |-> limit]) IN
       IF actor = NoUser
       THEN StartFinish(p, rq, Unauthorized)
       ELSE StartGoto(p, rq, "lv_paginate")
    /\ hist' = Null
    /\ UNCHANGED userStore
    /\ UNCHANGED store

\* await Like.aggregatePaginate(likedVideosAggregate, options).  The first
\* stage is $match { likedBy, video: { $exsists: true } }: the server knows
\* no operator $exsists and rejects the pipeline; when the Like model has
\* no paginate plugin the call itself throws.  Either way the handler ends
\* in an error before any document is read.
GetLikedVideosPaginate(p) ==
    /\ pc[p] = "lv_paginate"
    /\ \E plugin \in BOOLEAN :
          IF plugin
          THEN Finish(p, UncaughtError("unknown operator: $exsists"))
          ELSE Finish(p, UncaughtError("Like.aggregatePaginate is not a function"))
    /\ hist' = Null
    /\ UNCHANGED userStore
    /\ UNCHANGED store

\* ------------------------------------------------------------------ subscriptions
\* A Subscription document present when the server starts serving: u2 follows
\* the channel u1.
SeedSubs ==
    {[id |-> 1, subscriber |-> "u2", channel |-> "u1"]}

\* The Subscription documents matching { subscriber, channel }.
SubsMatchingIn(ss, subscriber, channel) ==
    {s \in ss : s.subscriber = subscriber /\ s.channel = channel}

SubsMatching(subscriber, channel) ==
    SubsMatchingIn(subs, subscriber, channel)

\* Subscription.findOne(subscriptionCondition): its _id, or 0 for null.
SubFindOne(subscriber, channel) ==
    IF SubsMatching(subscriber, channel) = {} THEN 0
    ELSE MinId(SubsMatching(subscriber, channel)).id

\* toggleSubscription with the self-subscription check left out.
ToggleSubscriptionStart_NoSelfCheck(p, actor, channelId) ==
    /\ Idle(p)
    /\ LET rq == Request("toggleSubscription", actor, channelId, AbsentId, NoData) IN
       IF actor = NoUser
       THEN StartFinish(p, rq, Unauthorized)
       ELSE IF ~isValidObjectId(channelId)
       THEN StartFinish(p, rq, ApiError(400, "Invalid channel ID provided"))
       ELSE StartGoto(p, rq, "sub_channel")
    /\ hist' = Null
    /\ UNCHANGED userStore
    /\ UNCHANGED store

\* toggleSubscription up to the first await: the 401 check, the 400 check of
\* the id and the 400 self-subscription check.
ToggleSubscriptionStart(p, actor, channelId) ==
    /\ Idle(p)
    /\ LET rq == Request("toggleSubscription", actor, channelId, AbsentId, NoData) IN
       IF actor = NoUser
       THEN StartFinish(p, rq, Unauthorized)
       ELSE IF ~isValidObjectId(channelId)
       THEN StartFinish(p, rq, ApiError(400, "Invalid channel ID provided"))
       ELSE IF actor = channelId
       THEN StartFinish(p, rq, ApiError(400, "You cannot subscribe to your own channel"))
       ELSE StartGoto(p, rq, "sub_channel")
    /\ hist' = Null
    /\ UNCHANGED userStore
    /\ UNCHANGED store

\* const channel = await User.findById(channelId) and the 404 check.
ToggleSubscriptionChannel(p) ==
    /\ pc[p] = "sub_channel"
    /\ IF req[p].id \notin Users
       THEN Finish(p, ApiError(404, "Channel not found"))
       ELSE Goto(p, "sub_find", Null)
    /\ hist' = Null
    /\ UNCHANGED userStore
    /\ UNCHANGED store

\* const existingSubscription = await Subscription.findOne(subscriptionCondition)
ToggleSubscriptionFind(p) ==
    /\ pc[p] = "sub_find"
    /\ Goto(p, "sub_write",
            [k |-> "sub", id |-> SubFindOne(req[p].actor, req[p].id)])
    /\ hist' = Null
    /\ UNCHANGED userStore
    /\ UNCHANGED store

\* if (existingSubscription) findByIdAndDelete(existingSubscription._id), answer
\* 200 subscribed false; else findByIdAndDelete(existingSubscription._id) again,
\* on null: reading _id of null throws a TypeError before anything is written.
ToggleSubscriptionWrite(p) ==
    /\ pc[p] = "sub_write"
    /\ IF loc[p].id # 0
       THEN /\ subs' = {s \in subs : s.id # loc[p].id}
            /\ Finish(p, ApiResponse(200, [subscribed |-> FALSE],
                                     Text("Unsubscribed successfully")))
       ELSE /\ subs' = subs
            /\ Finish(p, UncaughtError("TypeError: Cannot read properties of null"))
    /\ hist' = Null
    /\ UNCHANGED userStore
    /\ UNCHANGED <<videos, comments, tweets, playlists, likes, nextLikeId>>

\* ------------------------------------------------------------------ comments
\* updateComment up to its await: the 401 check, the 400 checks of the id and
\* of the content.
UpdateCommentStart(p, actor, commentId, content) ==
    /\ Idle(p)
    /\ LET rq == Request("updateComment", actor, commentId, AbsentId,
                         [content |-> content]) IN
       IF actor = NoUser
       THEN StartFinish(p, rq, Unauthorized)
       ELSE IF ~isValidObjectId(commentId)
       THEN StartFinish(p, rq, ApiError(400, "Invalid comment ID provided"))
       ELSE IF Trim(content) = ""
       THEN StartFinish(p, rq, ApiError(400, "Comment content cannot be empty"))
       ELSE StartGoto(p, rq, "uc_update")
    /\ hist' = Null
    /\ UNCHANGED userStore
    /\ UNCHANGED store

\* The same update without { new: true }: the answer carries the comment as
\* it was before the write.
UpdateCommentUpdate_NotNew(p) ==
    /\ pc[p] = "uc_update"
    /\ LET id == req[p].id
           case == LookupCase(comments, id, req[p].actor)
       IN IF FindOwned(comments, id, req[p].actor) = Null
          THEN /\ FinishCase(p, ApiError(404,
                      "Comment not found or you do not have permission to update it"),
                      case)
               /\ UNCHANGED comments
          ELSE /\ comments' = [comments EXCEPT
                      ![id].content = Trim(req[p].body.content)]
               /\ FinishCase(p, ApiResponse(200, comments[id],
                      Text("Comment updated successfully")), case)
    /\ hist' = Null
    /\ UNCHANGED userStore
    /\ UNCHANGED <<videos, tweets, playlists, likes, subs, nextLikeId>>

\* Comment.findOneAndUpdate({ _id, owner }, { $set: { content } }, { new: true })
\* and the response: the updated comment, or 404.
UpdateCommentUpdate(p) ==
    /\ pc[p] = "uc_update"
    /\ LET id == req[p].id
           case == LookupCase(comments, id, req[p].actor)
       IN IF FindOwned(comments, id, req[p].actor) = Null
          THEN /\ FinishCase(p, ApiError(404,
                      "Comment not found or you do not have permission to update it"),
                      case)
               /\ UNCHANGED comments
          ELSE /\ comments' = [comments EXCEPT
                      ![id].content = Trim(req[p].body.content)]
               /\ FinishCase(p, ApiResponse(200, comments'[id],
                      Text("Comment updated successfully")), case)
    /\ hist' = Null
    /\ UNCHANGED userStore
    /\ UNCHANGED <<videos, tweets, playlists, likes, subs, nextLikeId>>

\* deleteComment up to its await: the 401 check and the 400 check of the id.
DeleteCommentStart(p, actor, commentId) ==
    /\ Idle(p)
    /\ LET rq == Request("deleteComment", actor, commentId, AbsentId, NoData) IN
       IF actor = NoUser
       THEN StartFinish(p, rq, Unauthorized)
       ELSE IF ~isValidObjectId(commentId)
       THEN StartFinish(p, rq, ApiError(400, "Invalid comment ID provided"))
       ELSE StartGoto(p, rq, "dc_delete")
    /\ hist' = Null
    /\ UNCHANGED userStore
    /\ UNCHANGED store

\* Comment.findOneAndDelete({ _id, owner }) and the response.
DeleteCommentDelete(p) ==
    /\ pc[p] = "dc_delete"
    /\ LET id == req[p].id
           case == LookupCase(comments, id, req[p].actor)
       IN IF FindOwned(comments, id, req[p].actor) = Null
          THEN /\ FinishCase(p, ApiError(404,
                      "Comment not found or you are not owner"), case)
               /\ UNCHANGED comments
          ELSE /\ comments' = Remove(comments, id)
               /\ FinishCase(p, ApiResponse(200, NoData,
                      Text("Comment deleted successfully")), case)
    /\ hist' = Null
    /\ UNCHANGED userStore
    /\ UNCHANGED <<videos, tweets, playlists, likes, subs, nextLikeId>>

\* addComment up to its await: the 401 check, the 400 checks of the content
\* and of the id.
AddCommentStart(p, actor, videoId, content) ==
    /\ Idle(p)
    /\ LET rq == Request("addComment", actor, videoId, AbsentId,
                         [content |-> content]) IN
       IF actor = NoUser
       THEN StartFinish(p, rq, Unauthorized)
       ELSE IF Trim(content) = ""
       THEN StartFinish(p, rq, ApiError(400, "Comment content is required"))
       ELSE IF ~isValidObjectId(videoId)
       THEN StartFinish(p, rq, ApiError(400, "Invalid video ID provided"))
       ELSE StartGoto(p, rq, "ac_video")
    /\ hist' = Null
    /\ UNCHANGED userStore
    /\ UNCHANGED store

\* Video.findById(videoId) and the 404 check; then new Comment.create({..}):
\* Model.create called as a constructor throws before anything is written.
AddCommentVideo(p) ==
    /\ pc[p] = "ac_video"
    /\ IF ~Exists(videos, req[p].id)
       THEN Finish(p, ApiError(404, "Video not found"))
       ELSE Finish(p, UncaughtError("Comment.create is not a constructor"))
    /\ hist' = Null
    /\ UNCHANGED userStore
    /\ UNCHANGED store

\* getVideoComments up to its first await: the 400 check of the id.  The
\* handler does not look at req.user.
GetVideoCommentsStart(p, videoId, page, limit) ==
    /\ Idle(p)
    /\ LET rq == Request("getVideoComments", NoUser, videoId, AbsentId,
                         [page |-> page, limit |-> limit]) IN
       IF ~isValidObjectId(videoId)
       THEN StartFinish(p, rq, ApiError(400, "Invalid video ID provided"))
       ELSE StartGoto(p, rq, "gc_find")
    /\ hist' = Null
    /\ UNCHANGED userStore
    /\ UNCHANGED store

\* Video.findById(videoId) and the 404 check; then the pipeline is built with
\* mongoose.Types.ObjectId(videoId), a call without new: it returns the id
\* or throws a TypeError, depending on the library version.
GetVideoCommentsFind(p) ==
    /\ pc[p] = "gc_find"
    /\ \E callable \in BOOLEAN :
          IF ~Exists(videos, req[p].id)
          THEN Finish(p, ApiError(404, "Video not found"))
          ELSE IF ~callable
          THEN Finish(p, UncaughtError(
                   "TypeError: Class constructor ObjectId cannot be invoked without 'new'"))
          ELSE Goto(p, "gc_paginate", Null)
    /\ hist' = Null
    /\ UNCHANGED userStore
    /\ UNCHANGED store

\* The ids of the comments, newest first.
NewestFirst == <<"c1">>

\* $match { video }, $lookup of the owner in users, $unwind, $project.
CommentsAggregate(videoId) ==
    LET ids == SelectSeq(NewestFirst, LAMBDA c :
                   /\ c \in DOMAIN comments
                   /\ comments[c].video = videoId
                   /\ comments[c].owner \in DOMAIN accounts)
    IN [i \in 1..Len(ids) |->
           [owner |-> [username |-> accounts[comments[ids[i]].owner].username,
                       fullName |-> accounts[comments[ids[i]].owner].fullName,
                       avatar |-> accounts[comments[ids[i]].owner].avatar],
            content |-> comments[ids[i]].content]]

\* The server's answer to a pipeline whose $skip is negative.
Rejected == [k |-> "rejected"]

\* A plugin that rounds the number of pages down.
AggregatePaginate_RoundsDown(docs, pageNumber, limitNumber, absolute) ==
    LET page == IF pageNumber.nan \/ pageNumber.num = 0 THEN 1
                ELSE IF absolute /\ pageNumber.num < 0 THEN 0 - pageNumber.num
                ELSE pageNumber.num
        limit == IF ~limitNumber.nan /\ limitNumber.num > 0
                 THEN limitNumber.num ELSE 10
        first == (page - 1) * limit + 1
        last == IF page * limit < Len(docs) THEN page * limit ELSE Len(docs)
    IN IF page < 1 THEN Rejected
       ELSE [page |-> page,
             limit |-> limit,
             docs |-> SubSeq(docs, first, last),
             totalDocs |-> Len(docs),
             totalPages |-> IF Len(docs) = 0 THEN 1
                            ELSE Len(docs) \div limit]

\* Model.aggregatePaginate(aggregate, { page, limit }) of the paginate
\* plugin.  The plugin takes page 1 for a page that is NaN or 0, and limit
\* when it is greater than 0, else 10.  A negative page is taken by its
\* absolute value or as it is, depending on the release of the plugin; it
\* skips (page - 1) * limit documents, which the server rejects when
\* negative.  The number of pages is `Math.ceil(count / limit) || 1`.
AggregatePaginate(docs, pageNumber, limitNumber, absolute) ==
    LET page == IF pageNumber.nan \/ pageNumber.num = 0 THEN 1
                ELSE IF absolute /\ pageNumber.num < 0 THEN 0 - pageNumber.num
                ELSE pageNumber.num
        limit == IF ~limitNumber.nan /\ limitNumber.num > 0
                 THEN limitNumber.num ELSE 10
        first == (page - 1) * limit + 1
        last == IF page * limit < Len(docs) THEN page * limit ELSE Len(docs)
    IN IF page < 1 THEN Rejected
       ELSE [page |-> page,
             limit |-> limit,
             docs |-> SubSeq(docs, first, last),
             totalDocs |-> Len(docs),
             totalPages |-> IF Len(docs) = 0 THEN 1
                            ELSE (Len(docs) + limit - 1) \div limit]

\* Comment.aggregatePaginate and the 200: new ApiResponse(200, "Video comments
\* fetched successfully", { comments, totalPages, currentPage, totalComments }),
\* the text in the place of the data and the object in the place of the
\* message.
GetVideoCommentsPaginate(p) ==
    /\ pc[p] = "gc_paginate"
    /\ \E absolute \in BOOLEAN :
       LET result == AggregatePaginate(CommentsAggregate(req[p].id),
                          QueryNumber(req[p].body.page, DefaultPage),
                          QueryNumber(req[p].body.limit, DefaultLimit),
                          absolute)
       IN IF result = Rejected
          THEN Finish(p, UncaughtError("Argument to $skip cannot be negative"))
          ELSE Finish(p, ApiResponse(200,
                   Text("Video comments fetched successfully"),
                   [comments |-> result.docs,
                    totalPages |-> result.totalPages,
                    currentPage |-> result.page,
                    totalComments |-> result.totalDocs]))
    /\ hist' = Null
    /\ UNCHANGED userStore
    /\ UNCHANGED store

\* ------------------------------------------------------------------ healthcheck
\* healthcheck: the 200 with an empty object; the handler has no await.
Healthcheck(p) ==
    /\ Idle(p)
    /\ StartFinish(p, Request("healthcheck", NoUser, AbsentId, AbsentId, NoData),
                   ApiResponse(200, NoData,
                               Text("API server is healthy and running!")))
    /\ hist' = Null
    /\ UNCHANGED userStore
    /\ UNCHANGED store

\* ------------------------------------------------------------------ tweets
\* updateTweet up to its await: the 401 check, the 400 checks of the id and
\* of the content.
UpdateTweetStart(p, actor, tweetId, content) ==
    /\ Idle(p)
    /\ LET rq == Request("updateTweet", actor, tweetId, AbsentId,
                         [content |-> content]) IN
       IF actor = NoUser
       THEN StartFinish(p, rq, Unauthorized)
       ELSE IF ~isValidObjectId(tweetId)
       THEN StartFinish(p, rq, ApiError(400, "Invalid tweet ID provided"))
       ELSE IF Trim(content) = ""
       THEN StartFinish(p, rq, ApiError(400, "Tweet content cannot be empty"))
       ELSE StartGoto(p, rq, "ut_update")
    /\ hist' = Null
    /\ UNCHANGED userStore
    /\ UNCHANGED store

\* Tweet.findOneAndUpdate({ _id, owner }, { $set: { content } }, { new: true })
\* and the response.
UpdateTweetUpdate(p) ==
    /\ pc[p] = "ut_update"
    /\ LET id == req[p].id
           case == LookupCase(tweets, id, req[p].actor)
       IN IF FindOwned(tweets, id, req[p].actor) = Null
          THEN /\ FinishCase(p, ApiError(404,
                      "Tweet not found or you are not the owner"), case)
               /\ UNCHANGED tweets
          ELSE /\ tweets' = [tweets EXCEPT
                      ![id].content = Trim(req[p].body.content)]
               /\ FinishCase(p, ApiResponse(200, tweets'[id],
                      Text("Tweet updated successfully")), case)
    /\ hist' = Null
    /\ UNCHANGED userStore
    /\ UNCHANGED <<videos, comments, playlists, likes, subs, nextLikeId>>

\* deleteTweet up to its await: the 401 check and the 400 check of the id.
DeleteTweetStart(p, actor, tweetId) ==
    /\ Idle(p)
    /\ LET rq == Request("deleteTweet", actor, tweetId, AbsentId, NoData) IN
       IF actor = NoUser
       THEN StartFinish(p, rq, Unauthorized)
       ELSE IF ~isValidObjectId(tweetId)
       THEN StartFinish(p, rq, ApiError(400, "Invalid tweet ID provided"))
       ELSE StartGoto(p, rq, "dt_delete")
    /\ hist' = Null
    /\ UNCHANGED userStore
    /\ UNCHANGED store

\* Tweet.findOneAndDelete({ _id, owner }) and the response.
DeleteTweetDelete(p) ==
    /\ pc[p] = "dt_delete"
    /\ LET id == req[p].id
           case == LookupCase(tweets, id, req[p].actor)
       IN IF FindOwned(tweets, id, req[p].actor) = Null
          THEN /\ FinishCase(p, ApiError(404,
                      "Tweet not found or you are not the owner"), case)
               /\ UNCHANGED tweets
          ELSE /\ tweets' = Remove(tweets, id)
               /\ FinishCase(p, ApiResponse(200, NoData,
                      Text("Tweet deleted successfully")), case)
    /\ hist' = Null
    /\ UNCHANGED userStore
    /\ UNCHANGED <<videos, comments, playlists, likes, subs, nextLikeId>>

\* ------------------------------------------------------------------ playlists
\* Array.prototype.includes on the videos array.
Includes(list, x) ==
    \E i \in 1..Len(list) : list[i] = x

\* An update that leaves the array as it is.
Pull_Nothing(list, x) == list

\* { $pull: { videos: x } }: every occurrence of x leaves the array.
Pull(list, x) ==
    SelectSeq(list, LAMBDA y : y # x)

\* updatePlaylist up to its await: the 401 check, the 400 check of the id and
\* the 400 check that a name or a description is given.
UpdatePlaylistStart(p, actor, playlistId, name, description) ==
    /\ Idle(p)
    /\ LET rq == Request("updatePlaylist", actor, playlistId, AbsentId,
                         [description |-> description, name |-> name]) IN
       IF actor = NoUser
       THEN StartFinish(p, rq, Unauthorized)
       ELSE IF ~isValidObjectId(playlistId)
       THEN StartFinish(p, rq, ApiError(400, "Invalid playlist ID provided"))
       ELSE IF Trim(name) = "" /\ Trim(description) = ""
       THEN StartFinish(p, rq,
                ApiError(400, "Name or description is required for update"))
       ELSE StartGoto(p, rq, "up_update")
    /\ hist' = Null
    /\ UNCHANGED userStore
    /\ UNCHANGED store

\* Playlist.findOneAndUpdate({ _id, owner }, { $set: updateFields }, { new: true })
\* and the response.
UpdatePlaylistUpdate(p) ==
    /\ pc[p] = "up_update"
    /\ LET id == req[p].id
           b == req[p].body
           case == LookupCase(playlists, id, req[p].actor)
       IN IF FindOwned(playlists, id, req[p].actor) = Null
          THEN /\ FinishCase(p, ApiError(404,
                      "Playlist not found or you are not the owner"), case)
               /\ UNCHANGED playlists
          ELSE /\ playlists' = [playlists EXCEPT
                      ![id].name =
                          IF Trim(b.name) # "" THEN Trim(b.name) ELSE @,
                      ![id].description =
                          IF Trim(b.description) # "" THEN Trim(b.description) ELSE @]
               /\ FinishCase(p, ApiResponse(200, playlists'[id],
                      Text("Playlist updated successfully")), case)
    /\ hist' = Null
    /\ UNCHANGED userStore
    /\ UNCHANGED <<videos, comments, tweets, likes, subs, nextLikeId>>

\* deletePlaylist up to its await: the 401 check and the 400 check of the id.
DeletePlaylistStart(p, actor, playlistId) ==
    /\ Idle(p)
    /\ LET rq == Request("deletePlaylist", actor, playlistId, AbsentId, NoData) IN
       IF actor = NoUser
       THEN StartFinish(p, rq, Unauthorized)
       ELSE IF ~isValidObjectId(playlistId)
       THEN StartFinish(p, rq, ApiError(400, "Invalid playlist ID provided"))
       ELSE StartGoto(p, rq, "dp_delete")
    /\ hist' = Null
    /\ UNCHANGED userStore
    /\ UNCHANGED store

\* Playlist.findOneAndDelete({ _id, owner }) and the response.
DeletePlaylistDelete(p) ==
    /\ pc[p] = "dp_delete"
    /\ LET id == req[p].id
           case == LookupCase(playlists, id, req[p].actor)
       IN IF FindOwned(playlists, id, req[p].actor) = Null
          THEN /\ FinishCase(p, ApiError(404,
                      "Playlist not found or you are not the owner"), case)
               /\ UNCHANGED playlists
          ELSE /\ playlists' = Remove(playlists, id)
               /\ FinishCase(p, ApiResponse(200, NoData,
                      Text("Playlist deleted successfully")), case)
    /\ hist' = Null
    /\ UNCHANGED userStore
    /\ UNCHANGED <<videos, comments, tweets, likes, subs, nextLikeId>>

\* hist follows an addVideoToPlaylist and the removeVideoFromPlaylist of the
\* same video that comes next, while no other request takes a step: the list
\* the playlist held before the add, and how far the pair has come.
PlaylistHistStep(p) ==
    hist' =
      IF Idle(p)
      THEN IF /\ pc'[p] \in {"avp_video", "rvp_playlist"}
              /\ \A q \in Procs : Idle(q)
              /\ Exists(playlists, req'[p].id)
           THEN LET r == req'[p] IN
                IF r.h = "addVideoToPlaylist"
                THEN [actor |-> r.actor, video |-> r.id2, kind |-> "playlist",
                      target |-> r.id, runner |-> p,
                      before |-> playlists[r.id].videos, stage |-> "adding"]
                ELSE IF /\ hist # Null /\ hist.kind = "playlist"
                        /\ hist.stage = "added" /\ hist.actor = r.actor
                        /\ hist.target = r.id /\ hist.video = r.id2
                     THEN [hist EXCEPT !.runner = p, !.stage = "removing"]
                     ELSE Null
           ELSE Null
      ELSE IF hist # Null /\ hist.kind = "playlist" /\ hist.runner = p
           THEN IF pc'[p] = "done"
                THEN IF resp'[p].statusCode = 200
                     THEN [hist EXCEPT !.stage =
                              IF @ = "adding" THEN "added" ELSE "removed"]
                     ELSE Null
                ELSE hist
           ELSE Null

\* addVideoToPlaylist up to its first await: the 401 check and the 400 check
\* of the two ids.
AddVideoToPlaylistStart(p, actor, playlistId, videoId) ==
    /\ Idle(p)
    /\ LET rq == Request("addVideoToPlaylist", actor, playlistId, videoId, NoData) IN
       IF actor = NoUser
       THEN StartFinish(p, rq, Unauthorized)
       ELSE IF ~isValidObjectId(playlistId) \/ ~isValidObjectId(videoId)
       THEN StartFinish(p, rq,
                ApiError(400, "Invalid playlist ID or video ID provided"))
       ELSE StartGoto(p, rq, "avp_video")
    /\ PlaylistHistStep(p)
    /\ UNCHANGED userStore
    /\ UNCHANGED store

\* Video.findById(videoId) and the 404 check.
AddVideoToPlaylistVideo(p) ==
    /\ pc[p] = "avp_video"
    /\ IF ~Exists(videos, req[p].id2)
       THEN Finish(p, ApiError(404, "Video not found"))
       ELSE Goto(p, "avp_playlist", Null)
    /\ PlaylistHistStep(p)
    /\ UNCHANGED userStore
    /\ UNCHANGED store

\* As AddVideoToPlaylistFind, without the 409 check of includes.
AddVideoToPlaylistFind_NoIncludes(p) ==
    /\ pc[p] = "avp_playlist"
    /\ LET playlist == FindOwned(playlists, req[p].id, req[p].actor)
           case == LookupCase(playlists, req[p].id, req[p].actor)
       IN IF playlist = Null
          THEN FinishCase(p, ApiError(404,
                   "Playlist not found or you are not the owner"), case)
          ELSE Goto(p, "avp_save",
                    [k |-> "playlist",
                     doc |-> [playlist EXCEPT
                                 !.videos = Append(@, req[p].id2)]])
    /\ PlaylistHistStep(p)
    /\ UNCHANGED userStore
    /\ UNCHANGED store

\* Playlist.findOne({ _id, owner }), the 404 check, the 409 check of
\* playlist.videos.includes(videoId), and playlist.videos.push(videoId) on the
\* document in memory.
AddVideoToPlaylistFind(p) ==
    /\ pc[p] = "avp_playlist"
    /\ LET playlist == FindOwned(playlists, req[p].id, req[p].actor)
           case == LookupCase(playlists, req[p].id, req[p].actor)
       IN IF playlist = Null
          THEN FinishCase(p, ApiError(404,
                   "Playlist not found or you are not the owner"), case)
          ELSE IF Includes(playlist.videos, req[p].id2)
          THEN FinishCase(p, ApiError(409,
                   "Video already exists in the playlist"), case)
          ELSE Goto(p, "avp_save",
                    [k |-> "playlist",
                     doc |-> [playlist EXCEPT
                                 !.videos = Append(@, req[p].id2)]])
    /\ PlaylistHistStep(p)
    /\ UNCHANGED userStore
    /\ UNCHANGED store

\* playlist.save(): the push is sent as { $push: { videos: videoId } } on the
\* stored document, whatever it holds by now; a document deleted meanwhile
\* makes save throw.  The response carries the document in memory.
AddVideoToPlaylistSave(p) ==
    /\ pc[p] = "avp_save"
    /\ IF ~Exists(playlists, req[p].id)
       THEN /\ FinishCase(p, UncaughtError("DocumentNotFoundError"), "owner")
            /\ UNCHANGED playlists
       ELSE /\ playlists' = [playlists EXCEPT
                   ![req[p].id].videos = Append(@, req[p].id2)]
            /\ FinishCase(p, ApiResponse(200, loc[p].doc,
                   Text("Video added to playlist successfully")), "owner")
    /\ PlaylistHistStep(p)
    /\ UNCHANGED userStore
    /\ UNCHANGED <<videos, comments, tweets, likes, subs, nextLikeId>>

\* removeVideoFromPlaylist up to its first await: the 401 check and the 400
\* check of the two ids.
RemoveVideoFromPlaylistStart(p, actor, playlistId, videoId) ==
    /\ Idle(p)
    /\ LET rq == Request("removeVideoFromPlaylist", actor, playlistId, videoId,
                         NoData) IN
       IF actor = NoUser
       THEN StartFinish(p, rq, Unauthorized)
       ELSE IF ~isValidObjectId(playlistId) \/ ~isValidObjectId(videoId)
       THEN StartFinish(p, rq,
                ApiError(400, "Invalid playlist ID or video ID provided"))
       ELSE StartGoto(p, rq, "rvp_playlist")
    /\ PlaylistHistStep(p)
    /\ UNCHANGED userStore
    /\ UNCHANGED store

\* Playlist.findOne({ _id, owner }), the 404 check, and the 404 check of
\* !playlist.videos.includes(videoId).
RemoveVideoFromPlaylistFind(p) ==
    /\ pc[p] = "rvp_playlist"
    /\ LET playlist == FindOwned(playlists, req[p].id, req[p].actor)
           case == LookupCase(playlists, req[p].id, req[p].actor)
       IN IF playlist = Null
          THEN FinishCase(p, ApiError(404,
                   "Playlist not found or you are not the owner"), case)
          ELSE IF ~Includes(playlist.videos, req[p].id2)
          THEN FinishCase(p, ApiError(404,
                   "Video not found in the playlist"), case)
          ELSE Goto(p, "rvp_pull", Null)
    /\ PlaylistHistStep(p)
    /\ UNCHANGED userStore
    /\ UNCHANGED store

\* Playlist.findOneAndUpdate({ _id, owner }, { $pull: { videos: videoId } },
\* { new: true }), the 500 check and the response.
RemoveVideoFromPlaylistPull(p) ==
    /\ pc[p] = "rvp_pull"
    /\ IF FindOwned(playlists, req[p].id, req[p].actor) = Null
       THEN /\ FinishCase(p, ApiError(500,
                   "Failed to remove video from playlist"), "owner")
            /\ UNCHANGED playlists
       ELSE /\ playlists' = [playlists EXCEPT
                   ![req[p].id].videos = Pull(@, req[p].id2)]
            /\ FinishCase(p, ApiResponse(200, playlists'[req[p].id],
                   Text("Video removed from playlist successfully")), "owner")
    /\ PlaylistHistStep(p)
    /\ UNCHANGED userStore
    /\ UNCHANGED <<videos, comments, tweets, likes, subs, nextLikeId>>

\* The ids the store gives to created playlists, in creation order.
NewPlaylistIds == <<"p2">>

\* createPlaylist up to its await.  `const owner = req.user._id` reads _id
\* of undefined when there is no actor and throws before the 401 check;
\* then the 400 check of the trimmed name and description.
CreatePlaylistStart(p, actor, name, description) ==
    /\ Idle(p)
    /\ LET rq == Request("createPlaylist", actor, AbsentId, AbsentId,
                         [description |-> description, name |-> name]) IN
       IF actor = NoUser
       THEN StartFinish(p, rq,
                UncaughtError("Cannot read properties of undefined (reading '_id')"))
       ELSE IF Trim(name) = "" \/ Trim(description) = ""
       THEN StartFinish(p, rq,
                ApiError(400, "Playlist name and description are required"))
       ELSE StartGoto(p, rq, "cp_create")
    /\ hist' = Null
    /\ UNCHANGED userStore
    /\ UNCHANGED store

\* Playlist.create({ name: name.trim(), description: description.trim(),
\* owner }) and the 201 with the stored document.
CreatePlaylistCreate(p) ==
    /\ pc[p] = "cp_create"
    /\ \E i \in DOMAIN NewPlaylistIds :
          /\ NewPlaylistIds[i] \notin DOMAIN playlists
          /\ \A j \in 1..(i - 1) : NewPlaylistIds[j] \in DOMAIN playlists
          /\ LET id == NewPlaylistIds[i]
                 doc == [videos |-> <<>>, owner |-> req[p].actor,
                         description |-> Trim(req[p].body.description),
                         name |-> Trim(req[p].body.name)]
             IN /\ playlists' = [l \in (DOMAIN playlists) \cup {id} |->
                                    IF l = id THEN doc ELSE playlists[l]]
                /\ Finish(p, ApiResponse(201, doc,
                                         Text("Playlist created successfully")))
    /\ hist' = Null
    /\ UNCHANGED userStore
    /\ UNCHANGED <<videos, comments, tweets, likes, subs, nextLikeId>>

\* ------------------------------------------------------------------ videos
\* updateVideo up to its first await: the 401 check, the 400 check of the id
\* and the 400 check that a title, a description or a thumbnail file is given.
UpdateVideoStart(p, actor, videoId, title, description, file) ==
    /\ Idle(p)
    /\ LET rq == Request("updateVideo", actor, videoId, AbsentId,
                         [title |-> title, description |-> description,
                          file |-> file]) IN
       IF actor = NoUser
       THEN StartFinish(p, rq, Unauthorized)
       ELSE IF ~isValidObjectId(videoId)
       THEN StartFinish(p, rq, ApiError(400, "Invalid video ID provided"))
       ELSE IF Trim(title) = "" /\ Trim(description) = "" /\ ~file
       THEN StartFinish(p, rq,
                ApiError(400, "Provide title, description, or thumbnail to update"))
       ELSE StartGoto(p, rq, "uv_find")
    /\ hist' = Null
    /\ UNCHANGED userStore
    /\ UNCHANGED store

\* Video.findOne({ _id, owner }) and the 404 check.
UpdateVideoFind(p) ==
    /\ pc[p] = "uv_find"
    /\ LET case == LookupCase(videos, req[p].id, req[p].actor) IN
       IF FindOwned(videos, req[p].id, req[p].actor) = Null
       THEN FinishCase(p, ApiError(404,
                "Video not found or you are not the owner"), case)
       ELSE Goto(p, IF req[p].body.file THEN "uv_upload" ELSE "uv_update",
                 [k |-> "upload", url |-> ""])
    /\ hist' = Null
    /\ UNCHANGED userStore
    /\ UNCHANGED store

\* uploadOnCloudinary(newThumbnailLocalPath): the uploaded asset, or null and
\* the 500 response.
UpdateVideoUpload(p) ==
    /\ pc[p] = "uv_upload"
    /\ \/ Goto(p, "uv_update", [k |-> "upload", url |-> "new"])
       \/ FinishCase(p, ApiError(500, "Failed to upload new thumbnail"), "owner")
    /\ hist' = Null
    /\ UNCHANGED userStore
    /\ UNCHANGED store

\* Video.findByIdAndUpdate(videoId, { $set: updateFields }, { new: true }), the
\* 500 check, the cleanup of the old thumbnail (its failure is caught) and
\* the response.
UpdateVideoUpdate(p) ==
    /\ pc[p] = "uv_update"
    /\ LET id == req[p].id
           b == req[p].body
       IN IF ~Exists(videos, id)
          THEN /\ FinishCase(p, ApiError(500, "Failed to update video"), "owner")
               /\ UNCHANGED videos
          ELSE /\ videos' = [videos EXCEPT
                      ![id].title = IF Trim(b.title) # "" THEN Trim(b.title) ELSE @,
                      ![id].description =
                          IF Trim(b.description) # "" THEN Trim(b.description) ELSE @,
                      ![id].thumbnail = IF b.file THEN loc[p].url ELSE @]
               /\ FinishCase(p, ApiResponse(200, videos'[id],
                      Text("Video details updated successfully")), "owner")
    /\ hist' = Null
    /\ UNCHANGED userStore
    /\ UNCHANGED <<comments, tweets, playlists, likes, subs, nextLikeId>>

\* The files a publishAVideo request carries in req.files.
VideoFiles == {"none", "video", "both"}

\* The ids the store gives to published videos, in creation order.
NewVideoIds == <<"v3", "v4">>

Published == {id \in DOMAIN videos : \E i \in DOMAIN NewVideoIds : NewVideoIds[i] = id}

\* A handler that stores the video before it looks at the thumbnail.
PublishAVideoStart_CreatesFirst(p, actor, title, description, files) ==
    /\ Idle(p)
    /\ actor # NoUser
    /\ files = "video"
    /\ "v3" \notin DOMAIN videos
    /\ StartFinish(p, Request("publishAVideo", actor, AbsentId, AbsentId,
                       [title |-> title, description |-> description,
                        files |-> files]),
                   ApiError(400, "Thumbnail is required"))
    /\ videos' = [id \in (DOMAIN videos) \cup {"v3"} |->
                    IF id = "v3"
                    THEN [owner |-> actor, title |-> Trim(title),
                          description |-> Trim(description), thumbnail |-> "",
                          isPublished |-> TRUE, views |-> 0]
                    ELSE videos[id]]
    /\ hist' = Null
    /\ UNCHANGED userStore
    /\ UNCHANGED <<comments, tweets, playlists, likes, subs, nextLikeId>>

\* publishAVideo up to its first await: the 401 check, the 400 check of title
\* and description, the 400 checks of the two files.
PublishAVideoStart(p, actor, title, description, files) ==
    /\ Idle(p)
    /\ LET rq == Request("publishAVideo", actor, AbsentId, AbsentId,
                         [title |-> title, description |-> description,
                          files |-> files]) IN
       IF actor = NoUser
       THEN StartFinish(p, rq, Unauthorized)
       ELSE IF Trim(title) = "" \/ Trim(description) = ""
       THEN StartFinish(p, rq, ApiError(400, "Title and description are required"))
       ELSE IF files = "none"
       THEN StartFinish(p, rq, ApiError(400, "Video file is required"))
       ELSE IF files = "video"
       THEN StartFinish(p, rq, ApiError(400, "Thumbnail is required"))
       ELSE StartGoto(p, rq, "pv_upload")
    /\ hist' = Null
    /\ UNCHANGED userStore
    /\ UNCHANGED store

\* uploadOnCloudinary of the video file and of the thumbnail, each giving the
\* upload result or null: the 500 check of the video file; with no thumbnail,
\* cloudinary.uploader.destroy on a name the module does not import, a
\* ReferenceError.
PublishAVideoUpload(p) ==
    /\ pc[p] = "pv_upload"
    /\ \E videoOk \in BOOLEAN, thumbnailOk \in BOOLEAN :
          IF ~videoOk
          THEN Finish(p, ApiError(500, "Failed to upload video file to Cloudinary"))
          ELSE IF ~thumbnailOk
          THEN Finish(p, UncaughtError("ReferenceError: cloudinary is not defined"))
          ELSE Goto(p, "pv_create", Null)
    /\ hist' = Null
    /\ UNCHANGED userStore
    /\ UNCHANGED store

\* Video.create({ .., title: title.trim(), description: description.trim(),
\* owner, isPublished: true }) and the 201 with the stored video.
PublishAVideoCreate(p) ==
    /\ pc[p] = "pv_create"
    /\ Cardinality(Published) < MaxPublished
    /\ LET id == NewVideoIds[Cardinality(Published) + 1]
           b == req[p].body
       IN /\ videos' = [v \in (DOMAIN videos) \cup {id} |->
                           IF v = id
                           THEN [owner |-> req[p].actor, title |-> Trim(b.title),
                                 description |-> Trim(b.description),
                                 thumbnail |-> "new",
                                 isPublished |-> TRUE, views |-> 0]
                           ELSE videos[v]]
          /\ Finish(p, ApiResponse(201, videos'[id],
                 Text("Video published successfully")))
    /\ hist' = Null
    /\ UNCHANGED userStore
    /\ UNCHANGED <<comments, tweets, playlists, likes, subs, nextLikeId>>

\* deleteVideo up to its await: the 401 check and the 400 check of the id.
DeleteVideoStart(p, actor, videoId) ==
    /\ Idle(p)
    /\ LET rq == Request("deleteVideo", actor, videoId, AbsentId, NoData) IN
       IF actor = NoUser
       THEN StartFinish(p, rq, Unauthorized)
       ELSE IF ~isValidObjectId(videoId)
       THEN StartFinish(p, rq, ApiError(400, "Invalid video ID provided"))
       ELSE StartGoto(p, rq, "dv_delete")
    /\ hist' = Null
    /\ UNCHANGED userStore
    /\ UNCHANGED store

\* Video.findOneAndDelete({ _id, owner }) and the 404 check.  Then, with no
\* await in between: cloudinary is not imported in this file, the
\* ReferenceError is caught by the try block; Like is not imported either,
\* Like.deleteMany throws a ReferenceError outside any try block, so the
\* handler fails before the cleanup of likes, comments and playlists.
DeleteVideoDelete(p) ==
    /\ pc[p] = "dv_delete"
    /\ LET id == req[p].id
           case == LookupCase(videos, id, req[p].actor)
       IN IF FindOwned(videos, id, req[p].actor) = Null
          THEN /\ FinishCase(p, ApiError(404,
                      "Video not found or you are not the owner"), case)
               /\ UNCHANGED videos
          ELSE /\ videos' = Remove(videos, id)
               /\ FinishCase(p, UncaughtError("ReferenceError: Like is not defined"),
                      case)
    /\ hist' = Null
    /\ UNCHANGED userStore
    /\ UNCHANGED <<comments, tweets, playlists, likes, subs, nextLikeId>>

\* togglePublishStatus up to its first await: the 401 check and the 400
\* check of the id.
TogglePublishStatusStart(p, actor, videoId) ==
    /\ Idle(p)
    /\ LET rq == Request("togglePublishStatus", actor, videoId, AbsentId, NoData) IN
       IF actor = NoUser
       THEN StartFinish(p, rq, Unauthorized)
       ELSE IF ~isValidObjectId(videoId)
       THEN StartFinish(p, rq, ApiError(400, "Invalid video ID provided"))
       ELSE StartGoto(p, rq, "tp_find")
    /\ hist' = Null
    /\ UNCHANGED userStore
    /\ UNCHANGED store

\* As TogglePublishStatusFind, with Video.findById(videoId) for the lookup.
TogglePublishStatusFind_ById(p) ==
    /\ pc[p] = "tp_find"
    /\ LET video == FindById(videos, req[p].id)
           case == LookupCase(videos, req[p].id, req[p].actor)
       IN IF video = Null
          THEN FinishCase(p, ApiError(404,
                   "Video not found or you are not the owner"), case)
          ELSE Goto(p, "tp_save",
                    [k |-> "video", isPublished |-> ~video.isPublished])
    /\ hist' = Null
    /\ UNCHANGED userStore
    /\ UNCHANGED store

\* Video.findOne({ _id, owner }), the 404 check, and
\* video.isPublished = !video.isPublished on the document in memory.
TogglePublishStatusFind(p) ==
    /\ pc[p] = "tp_find"
    /\ LET video == FindOwned(videos, req[p].id, req[p].actor)
           case == LookupCase(videos, req[p].id, req[p].actor)
       IN IF video = Null
          THEN FinishCase(p, ApiError(404,
                   "Video not found or you are not the owner"), case)
          ELSE Goto(p, "tp_save",
                    [k |-> "video", isPublished |-> ~video.isPublished])
    /\ hist' = Null
    /\ UNCHANGED userStore
    /\ UNCHANGED store

\* video.save(): the changed field is sent as { $set: { isPublished } } on the
\* stored document; a document deleted meanwhile makes save throw.
TogglePublishStatusSave(p) ==
    /\ pc[p] = "tp_save"
    /\ IF ~Exists(videos, req[p].id)
       THEN /\ FinishCase(p, UncaughtError("DocumentNotFoundError"), "owner")
            /\ UNCHANGED videos
       ELSE /\ videos' = [videos EXCEPT
                   ![req[p].id].isPublished = loc[p].isPublished]
            /\ FinishCase(p, ApiResponse(200,
                   [isPublished |-> loc[p].isPublished],
                   Text("Video publish status toggled successfully")), "owner")
    /\ hist' = Null
    /\ UNCHANGED userStore
    /\ UNCHANGED <<comments, tweets, playlists, likes, subs, nextLikeId>>

\* getVideoById up to its first await: the 400 check of the id.
GetVideoByIdStart(p, actor, videoId) ==
    /\ Idle(p)
    /\ LET rq == Request("getVideoById", actor, videoId, AbsentId, NoData) IN
       IF ~isValidObjectId(videoId)
       THEN StartFinish(p, rq, ApiError(400, "Invalid video ID provided"))
       ELSE StartGoto(p, rq, "gv_aggregate")
    /\ hist' = Null
    /\ UNCHANGED userStore
    /\ UNCHANGED store

\* The document getVideoById answers with: the fields of the aggregation
\* result the claims are about.
VideoDocument(id, v, views, isSubscribed) ==
    [id |-> id, owner |-> v.owner, title |-> v.title, views |-> views,
     isSubscribed |-> isSubscribed]

\* As GetVideoByIdAggregate, every caller going on to the view increment.
GetVideoByIdAggregate_CountsOwner(p) ==
    /\ pc[p] = "gv_aggregate"
    /\ LET id == req[p].id IN
       IF ~Exists(videos, id)
       THEN Finish(p, ApiError(404, "Video not found"))
       ELSE Goto(p, "gv_inc", [k |-> "video", doc |-> videos[id]])
    /\ hist' = Null
    /\ UNCHANGED userStore
    /\ UNCHANGED store

\* Video.aggregate([{ $match: { _id } }, ..]) and the 404 check; the owner is
\* answered at once, any other caller goes on to the view increment.
GetVideoByIdAggregate(p) ==
    /\ pc[p] = "gv_aggregate"
    /\ LET id == req[p].id IN
       IF ~Exists(videos, id)
       THEN Finish(p, ApiError(404, "Video not found"))
       ELSE IF req[p].actor = videos[id].owner
       THEN Finish(p, ApiResponse(200,
                VideoDocument(id, videos[id], videos[id].views, FALSE),
                Text("Video fetched successfully")))
       ELSE Goto(p, "gv_inc", [k |-> "video", doc |-> videos[id]])
    /\ hist' = Null
    /\ UNCHANGED userStore
    /\ UNCHANGED store

\* Video.findByIdAndUpdate(videoId, { $inc: { views: 1 } }) and
\* videoDocument.views += 1; an anonymous caller is answered here.
GetVideoByIdIncrement(p) ==
    /\ pc[p] = "gv_inc"
    /\ LET id == req[p].id
           doc == loc[p].doc
       IN /\ IF Exists(videos, id)
             THEN /\ videos[id].views < MaxViews
                  /\ videos' = [videos EXCEPT ![id].views = @ + 1]
             ELSE UNCHANGED videos
          /\ IF req[p].actor = NoUser
             THEN Finish(p, ApiResponse(200,
                      VideoDocument(id, doc, doc.views + 1, FALSE),
                      Text("Video fetched successfully")))
             ELSE Goto(p, "gv_sub", [k |-> "video", doc |-> doc])
    /\ hist' = Null
    /\ UNCHANGED userStore
    /\ UNCHANGED <<comments, tweets, playlists, likes, subs, nextLikeId>>

\* Subscription.findOne({ subscriber, channel: owner }) and the response.
GetVideoByIdSubscription(p) ==
    /\ pc[p] = "gv_sub"
    /\ LET doc == loc[p].doc IN
       Finish(p, ApiResponse(200,
           VideoDocument(req[p].id, doc, doc.views + 1,
                         SubsMatching(req[p].actor, doc.owner) # {}),
           Text("Video fetched successfully")))
    /\ hist' = Null
    /\ UNCHANGED userStore
    /\ UNCHANGED store

\* The ids of the videos, newest first.
NewestVideosFirst == <<"v4", "v3", "v2", "v1">>

\* $match { isPublished: true, owner? }, $lookup of the owner in users,
\* $unwind, $project, $sort { createdAt: -1 }.
VideosAggregate(userId) ==
    LET ids == SelectSeq(NewestVideosFirst, LAMBDA v :
                   /\ v \in DOMAIN videos
                   /\ videos[v].isPublished
                   /\ userId # Absent => videos[v].owner = userId
                   /\ videos[v].owner \in DOMAIN accounts)
    IN [i \in 1..Len(ids) |->
           [id |-> ids[i],
            owner |-> [id |-> videos[ids[i]].owner,
                       username |-> accounts[videos[ids[i]].owner].username],
            title |-> videos[ids[i]].title,
            views |-> videos[ids[i]].views]]

\* getAllVideos up to its first await: parseInt of page and limit, and the
\* 400 check of a userId that was sent.  The handler does not look at
\* req.user.
GetAllVideosStart(p, userId, page, limit) ==
    /\ Idle(p)
    /\ LET rq == Request("getAllVideos", NoUser, userId, AbsentId,
                         [page |-> page, limit |-> limit]) IN
       IF userId = Absent
       THEN StartGoto(p, rq, "av_paginate")
       ELSE IF ~isValidObjectId(userId)
       THEN StartFinish(p, rq, ApiError(400, "Invalid userId provided"))
       ELSE StartGoto(p, rq, "av_user")
    /\ hist' = Null
    /\ UNCHANGED userStore
    /\ UNCHANGED store

\* User.findById(userId) and the 404 check.
GetAllVideosUser(p) ==
    /\ pc[p] = "av_user"
    /\ IF req[p].id \notin DOMAIN accounts
       THEN Finish(p, ApiError(404, "User (channel) not found"))
       ELSE Goto(p, "av_paginate", Null)
    /\ hist' = Null
    /\ UNCHANGED userStore
    /\ UNCHANGED store

\* Video.aggregatePaginate(videosAggregate, { page, limit, customLabels:
\* { docs: 'videos' } }) and the 200 with the page.
GetAllVideosPaginate(p) ==
    /\ pc[p] = "av_paginate"
    /\ \E absolute \in BOOLEAN :
       LET result == AggregatePaginate(VideosAggregate(req[p].id),
                          QueryNumber(req[p].body.page, DefaultPage),
                          QueryNumber(req[p].body.limit, DefaultLimit),
                          absolute)
       IN IF result = Rejected
          THEN Finish(p, UncaughtError("Argument to $skip cannot be negative"))
          ELSE Finish(p, ApiResponse(200,
                   [videos |-> result.docs,
                    page |-> result.page,
                    limit |-> result.limit,
                    totalDocs |-> result.totalDocs,
                    totalPages |-> result.totalPages],
                   Text("Videos fetched successfully")))
    /\ hist' = Null
    /\ UNCHANGED userStore
    /\ UNCHANGED store

\* ------------------------------------------------------------------ accounts
\* Handles and emails a request may carry; "Alice" is "alice" in another
\* casing.
Handles == {"alice", "Alice", "carol"}
Emails == {"a@x", "c@x"}
Passwords == {"pw", "pw2"}

\* String.prototype.toLowerCase on those handles.
Lower(text) == IF text = "Alice" THEN "alice" ELSE text

\* The ids the store gives to accounts, in creation order.
AccountIds == <<"u1", "u2", "u3", "u4", "u5">>

\* A projection that drops nothing.
Select_Nothing(doc, dropped) == doc

\* query.select("-a -b"): the document without the named fields.
Select(doc, dropped) == [f \in (DOMAIN doc) \ dropped |-> doc[f]]

\* A filter that compares the handle as it was sent.
UserMatches_CaseSensitive(username, email) ==
    {u \in DOMAIN accounts :
        \/ accounts[u].username = username
        \/ accounts[u].email = email}

\* The accounts a filter { $or: [{ username }, { email }] } matches; the
\* Account schema normalizes the case of a handle it is given.
UserMatches(username, email) ==
    {u \in DOMAIN accounts :
        \/ accounts[u].username = Lower(username)
        \/ accounts[u].email = email}

\* The id of no account.
NoAccount == "nobody"

\* User.findOne({ $or: [{ username }, { email }] }): the id of the first
\* matching account in creation order, or NoAccount.
UserFindOne(username, email) ==
    LET M == UserMatches(username, email) IN
    IF M = {} THEN NoAccount
    ELSE AccountIds[CHOOSE i \in 1..Len(AccountIds) :
             /\ AccountIds[i] \in M
             /\ \A j \in 1..(i - 1) : AccountIds[j] \notin M]

\* The handler returns without sending a response.
Return(p) ==
    /\ pc' = [pc EXCEPT ![p] = "done"]
    /\ loc' = [loc EXCEPT ![p] = Null]
    /\ UNCHANGED <<resp, req, seen>>

RegisterFields == {"fullName", "email", "username", "password"}
Files == {"none", "avatar", "cover", "both"}

\* registerUser up to its first await: the 400 check of the four fields.
RegisterUserStart(p, body) ==
    /\ Idle(p)
    /\ LET rq == Request("registerUser", NoUser, AbsentId, AbsentId, body) IN
       IF \E f \in RegisterFields : Trim(body[f]) = ""
       THEN StartFinish(p, rq, ApiError(400, "Please fill all the fields"))
       ELSE StartGoto(p, rq, "ru_find")
    /\ hist' = Null
    /\ UNCHANGED <<store, userStore>>

\* User.findOne({ $or: [{ username }, { email }] }) and the 409 check; then
\* req.files?.avatar[0] (a TypeError when no avatar was sent), and the block
\* of the cover image test, which holds the rest of the handler: without a
\* cover image the handler returns and sends nothing.
RegisterUserFind(p) ==
    /\ pc[p] = "ru_find"
    /\ LET body == req[p].body IN
       IF UserFindOne(body.username, body.email) # NoAccount
       THEN Finish(p, ApiError(409,
                "User with email or username already exists"))
       ELSE IF body.files \in {"none", "cover"}
       THEN Finish(p, UncaughtError(
                "TypeError: Cannot read properties of undefined (reading '0')"))
       ELSE IF body.files = "avatar"
       THEN Return(p)
       ELSE Goto(p, "ru_upload", Null)
    /\ hist' = Null
    /\ UNCHANGED <<store, userStore>>

\* uploadOnCloudinary of the avatar and of the cover image, each giving the
\* upload result or null; the 500 check of the avatar; coverImage.url.
RegisterUserUpload(p) ==
    /\ pc[p] = "ru_upload"
    /\ \E avatarOk \in BOOLEAN, coverOk \in BOOLEAN :
          IF ~avatarOk
          THEN Finish(p, ApiError(500, "Avatar file is required"))
          ELSE IF ~coverOk
          THEN Finish(p, UncaughtError(
                   "TypeError: Cannot read properties of null (reading 'url')"))
          ELSE Goto(p, "ru_create", Null)
    /\ hist' = Null
    /\ UNCHANGED <<store, userStore>>

\* User.create({ .., username: username.toLowerCase() }): the store refuses
\* a handle or an email that an account already has.
RegisterUserCreate(p) ==
    /\ pc[p] = "ru_create"
    /\ LET body == req[p].body
           n == Cardinality(DOMAIN accounts)
           id == AccountIds[n + 1]
       IN IF UserMatches(Lower(body.username), body.email) # {}
          THEN /\ Finish(p, UncaughtError("E11000 duplicate key error"))
               /\ UNCHANGED accounts
          ELSE /\ n < MaxAccounts
               /\ accounts' =
                     [u \in (DOMAIN accounts) \cup {id} |->
                        IF u = id
                        THEN [password |-> Hash(body.password),
                              username |-> Lower(body.username),
                              email |-> body.email,
                              fullName |-> body.fullName,
                              avatar |-> "new", coverImage |-> "new",
                              refreshToken |-> Null]
                        ELSE accounts[u]]
               /\ Goto(p, "ru_read", [k |-> "user", id |-> id])
    /\ hist' = Null
    /\ UNCHANGED <<store, issued>>

\* User.findById(user._id).select("-password -refreshToken") and the 201.
RegisterUserRead(p) ==
    /\ pc[p] = "ru_read"
    /\ Finish(p, ApiResponse(201,
           Select(accounts[loc[p].id], {"password", "refreshToken"}),
           Text("User registered successfully")))
    /\ hist' = Null
    /\ UNCHANGED <<store, userStore>>

RegisterUserSteps(p, H, E, N, F) ==
    \/ \E username \in H, email \in E, fullName \in N, files \in F :
          RegisterUserStart(p, [password |-> "pw", username |-> username,
                                email |-> email, fullName |-> fullName,
                                files |-> files])
    \/ RegisterUserFind(p)
    \/ RegisterUserUpload(p)
    \/ RegisterUserCreate(p)
    \/ RegisterUserRead(p)

\* ------------------------------------------------------------------ sessions

\* user.generateAccessToken() / user.generateRefreshToken(): signed
\* credentials bound to the account id; n tells one issue from the next.
Token(kind, id, n) == [kind |-> kind, n |-> n, sub |-> id]

\* The refresh credentials that can be issued to the accounts A.
RefreshTokens(A) == {Token("refresh", u, n) : u \in A, n \in 1..MaxTokens}

\* A refresh credential that jwt.verify rejects.
ForgedToken == [kind |-> "forged", n |-> 0, sub |-> NoAccount]

\* user.isPasswordCorrect(password): the comparison with the stored hash.
isPasswordCorrect(id, password) == accounts[id].password = Hash(password)

\* hist remembers the last successful logout of an account until a new
\* session credential is stored for that account.
LoggedOut(p, id) ==
    [actor |-> id, kind |-> "session", target |-> id, runner |-> p]

\* loginUser up to its first await: the 400 check of username and email.
LoginUserStart(p, body) ==
    /\ Idle(p)
    /\ LET rq == Request("loginUser", NoUser, AbsentId, AbsentId, body) IN
       IF body.username = Absent /\ body.email = Absent
       THEN StartFinish(p, rq,
                ApiError(400, "Please provide username or email"))
       ELSE StartGoto(p, rq, "lu_find")
    /\ UNCHANGED <<store, userStore, hist>>

\* loginUser of controllers/user.controller.js up to its first await: its
\* check is `!username || !email`, so a body that lacks either identifier is
\* answered 400.
LoginUserStartEitherMissing(p, body) ==
    /\ Idle(p)
    /\ LET rq == Request("loginUser", NoUser, AbsentId, AbsentId, body) IN
       IF body.username = Absent \/ body.email = Absent
       THEN StartFinish(p, rq,
                ApiError(400, "Please provide username or email"))
       ELSE StartGoto(p, rq, "lu_find")
    /\ UNCHANGED <<store, userStore, hist>>

\* User.findOne({ $or: [{ username }, { email }] }), the 401 check, and
\* user.isPasswordCorrect(password) with its 401 check.
LoginUserFind(p) ==
    /\ pc[p] = "lu_find"
    /\ LET body == req[p].body
           id == UserFindOne(body.username, body.email)
       IN IF id = NoAccount
          THEN Finish(p, ApiError(401, "User does not exist"))
          ELSE IF ~isPasswordCorrect(id, body.password)
          THEN Finish(p, ApiError(401, "Invalid user credentials"))
          ELSE Goto(p, "gt_find", [k |-> "user", id |-> id])
    /\ UNCHANGED <<store, userStore, hist>>

\* generateAccessAndRefreshTokens: User.findById(userId) and the two
\* credentials signed for the account; user.refreshToken is set on the
\* document in memory.
GenerateTokensFind(p) ==
    /\ pc[p] = "gt_find"
    /\ Cardinality(issued) < MaxTokens
    /\ LET id == loc[p].id
           n == Cardinality(issued) + 1
       IN /\ issued' = issued \cup {Token("refresh", id, n)}
          /\ Goto(p, "gt_save",
                  [k |-> "user", id |-> id,
                   refreshToken |-> Token("refresh", id, n),
                   accesToken |-> Token("access", id, n)])
    /\ UNCHANGED <<store, accounts, hist>>

\* generateAccessAndRefreshTokens: user.save() stores the refresh
\* credential and { accesToken, refreshToken } is returned.  loginUser goes
\* on to read the account; refreshAccessToken destructures newrefreshToken,
\* which the returned object does not have, and answers without a refresh
\* credential.
GenerateTokensSave(p) ==
    /\ pc[p] = "gt_save"
    /\ LET id == loc[p].id IN
       /\ accounts' = [accounts EXCEPT ![id].refreshToken = loc[p].refreshToken]
       /\ hist' = IF hist # Null /\ hist.kind = "session" /\ hist.actor = id
                  THEN Null ELSE hist
       /\ IF req[p].h = "loginUser"
          THEN Goto(p, "lu_read", loc[p])
          ELSE Finish(p, ApiResponse(200,
                   [accesToken |-> loc[p].accesToken],
                   Text("Access token refreshed successfully")))
    /\ UNCHANGED <<store, issued>>

\* User.findById(user._id).select("-password -refreshToken") and the 200
\* with the account and the two credentials.
LoginUserRead(p) ==
    /\ pc[p] = "lu_read"
    /\ Finish(p, ApiResponse(200,
           [refreshToken |-> loc[p].refreshToken,
            accesToken |-> loc[p].accesToken,
            user |-> Select(accounts[loc[p].id], {"password", "refreshToken"})],
           Text("User logged in successfully")))
    /\ UNCHANGED <<store, userStore, hist>>

\* logoutUser up to its await; the route lets only an authenticated actor
\* reach the handler.
LogoutUserStart(p, actor) ==
    /\ Idle(p)
    /\ actor \in DOMAIN accounts
    /\ StartGoto(p, Request("logoutUser", actor, AbsentId, AbsentId, NoData),
                 "lo_update")
    /\ UNCHANGED <<store, userStore, hist>>

\* User.findByIdAndUpdate(req.user._id, { $set: { refreshToken: undefined } })
\* and the 200.  What the update does with the undefined value depends on
\* the Mongoose release in use: the key is dropped and the update changes
\* nothing, or the field is set to null.
LogoutUserUpdate(p) ==
    /\ pc[p] = "lo_update"
    /\ \E dropped \in BOOLEAN :
          accounts' = IF dropped THEN accounts
                      ELSE [accounts EXCEPT ![req[p].actor].refreshToken = Null]
    /\ hist' = LoggedOut(p, req[p].actor)
    /\ Finish(p, ApiResponse(200, NoData, Text("User logged out successfully")))
    /\ UNCHANGED <<store, issued>>

\* refreshAccessToken up to its await: the 401 check of the credential and
\* jwt.verify, whose failure the catch block answers with 401.  A caller
\* presents no credential, one that was issued, or one it made up.
RefreshAccessTokenStart(p, token) ==
    /\ Idle(p)
    /\ token \in issued \cup {Null, ForgedToken}
    /\ LET rq == Request("refreshAccessToken", NoUser, AbsentId, AbsentId,
                         [refreshToken |-> token]) IN
       IF token = Null
       THEN StartFinish(p, rq, ApiError(401, "Unauthorized request"))
       ELSE IF token.kind # "refresh"
       THEN StartFinish(p, rq, ApiError(401, "invalid signature"))
       ELSE StartGoto(p, rq, "ra_find")
    /\ UNCHANGED <<store, userStore, hist>>

\* User.findById(decodedToken._id), the 401 check, and the 401 check of the
\* credential against the stored one.
RefreshAccessTokenFind(p) ==
    /\ pc[p] = "ra_find"
    /\ LET token == req[p].body.refreshToken IN
       IF token.sub \notin DOMAIN accounts
       THEN Finish(p, ApiError(401, "Invalid refresh token"))
       ELSE IF token # accounts[token.sub].refreshToken
       THEN Finish(p, ApiError(401, "Refresh token does not match or expired"))
       ELSE Goto(p, "gt_find", [k |-> "user", id |-> token.sub])
    /\ UNCHANGED <<store, userStore, hist>>

LoginUserSteps(p, H, E, W) ==
    \/ \E username \in H, email \in E, password \in W :
          LoginUserStart(p, [password |-> password, username |-> username,
                            email |-> email])
    \/ LoginUserFind(p)
    \/ LoginUserRead(p)

GenerateTokensSteps(p) ==
    \/ GenerateTokensFind(p)
    \/ GenerateTokensSave(p)

LogoutUserSteps(p, A) ==
    \/ \E actor \in A : LogoutUserStart(p, actor)
    \/ LogoutUserUpdate(p)

RefreshAccessTokenSteps(p, T) ==
    \/ \E token \in T : RefreshAccessTokenStart(p, token)
    \/ RefreshAccessTokenFind(p)

\* ------------------------------------------------------------------ account details
\* req.user as the authentication step of the route hands it to a handler:
\* the account without its credentials.
CurrentUser(actor) == Select(accounts[actor], {"password", "refreshToken"})

\* getCurrentUser: the 200 with req.user; the handler has no await.
GetCurrentUser(p, actor) ==
    /\ Idle(p)
    /\ actor \in DOMAIN accounts
    /\ StartFinish(p, Request("getCurrentUser", actor, AbsentId, AbsentId, NoData),
                   ApiResponse(200, CurrentUser(actor),
                               Text("User fetched successfully")))
    /\ UNCHANGED <<store, userStore, hist>>

\* updateAccountDetails up to its await: the 400 check of fullName and email.
UpdateAccountDetailsStart(p, actor, fullName, email) ==
    /\ Idle(p)
    /\ actor \in DOMAIN accounts
    /\ LET rq == Request("updateAccountDetails", actor, AbsentId, AbsentId,
                         [email |-> email, fullName |-> fullName]) IN
       IF fullName = Absent \/ email = Absent
       THEN StartFinish(p, rq, ApiError(400, "Please fill all the fields"))
       ELSE StartGoto(p, rq, "ua_update")
    /\ UNCHANGED <<store, userStore, hist>>

\* User.findByIdAndUpdate(req.user._id, { $set: { fullName, email } },
\* { new: true }).select("-password") and the 200; the store refuses an
\* email that another account has.
UpdateAccountDetailsUpdate(p) ==
    /\ pc[p] = "ua_update"
    /\ LET id == req[p].actor
           body == req[p].body
       IN IF \E u \in (DOMAIN accounts) \ {id} : accounts[u].email = body.email
          THEN /\ Finish(p, UncaughtError("E11000 duplicate key error"))
               /\ UNCHANGED accounts
          ELSE /\ accounts' = [accounts EXCEPT ![id].fullName = body.fullName,
                                               ![id].email = body.email]
               /\ Finish(p, ApiResponse(200,
                      Select(accounts'[id], {"password"}),
                      Text("User details updated successfully")))
    /\ UNCHANGED <<store, issued, hist>>

\* updateUserAvatar up to its first await: the 400 check of the file.
UpdateUserAvatarStart(p, actor, file) ==
    /\ Idle(p)
    /\ actor \in DOMAIN accounts
    /\ LET rq == Request("updateUserAvatar", actor, AbsentId, AbsentId,
                         [file |-> file]) IN
       IF ~file
       THEN StartFinish(p, rq, ApiError(400, "Avatar file is missing"))
       ELSE StartGoto(p, rq, "av_find")
    /\ UNCHANGED <<store, userStore, hist>>

\* User.findById(req.user._id) and the 404 check; the document, password
\* included, stays in memory as user.
UpdateUserAvatarFind(p) ==
    /\ pc[p] = "av_find"
    /\ IF req[p].actor \notin DOMAIN accounts
       THEN Finish(p, ApiError(404, "User not found"))
       ELSE Goto(p, "av_upload", [k |-> "user", doc |-> accounts[req[p].actor]])
    /\ UNCHANGED <<store, userStore, hist>>

\* uploadOnCloudinary(avatarLocalPath): null makes avatar.url throw.  With an
\* old avatar, uploadOnCloudinary.destroy is not a function: the TypeError
\* is caught and answered with 500, before the account is updated.
UpdateUserAvatarUpload(p) ==
    /\ pc[p] = "av_upload"
    /\ \E uploaded \in BOOLEAN :
          IF ~uploaded
          THEN Finish(p, UncaughtError(
                   "TypeError: Cannot read properties of null (reading 'url')"))
          ELSE IF loc[p].doc.avatar # Absent
          THEN Finish(p, ApiError(500,
                   "Error deleting old avatar from Cloudinary"))
          ELSE Goto(p, "av_update", loc[p])
    /\ UNCHANGED <<store, userStore, hist>>

\* User.findByIdAndUpdate(req.user._id, { $set: { avatar } }) and the 200,
\* whose data is the document read before the update.  Every account has an
\* avatar, so no request comes this far.
UpdateUserAvatarUpdate(p) ==
    /\ pc[p] = "av_update"
    /\ accounts' = [accounts EXCEPT ![req[p].actor].avatar = "new"]
    /\ Finish(p, ApiResponse(200, loc[p].doc, Text("Avatar updated successfully")))
    /\ UNCHANGED <<store, issued, hist>>

\* updateUserCoverImage up to its first await: the 400 check of the file.
UpdateUserCoverImageStart(p, actor, file) ==
    /\ Idle(p)
    /\ actor \in DOMAIN accounts
    /\ LET rq == Request("updateUserCoverImage", actor, AbsentId, AbsentId,
                         [file |-> file]) IN
       IF ~file
       THEN StartFinish(p, rq, ApiError(400, "CoverImage file is missing"))
       ELSE StartGoto(p, rq, "ci_find")
    /\ UNCHANGED <<store, userStore, hist>>

\* User.findById(req.user._id) and the 404 check; then coverImage.url is
\* read above the const coverImage declaration: a ReferenceError.
UpdateUserCoverImageFind(p) ==
    /\ pc[p] = "ci_find"
    /\ IF req[p].actor \notin DOMAIN accounts
       THEN Finish(p, ApiError(404, "User not found"))
       ELSE Finish(p, UncaughtError(
                "ReferenceError: Cannot access 'coverImage' before initialization"))
    /\ UNCHANGED <<store, userStore, hist>>

\* changeCurrentPassword up to its first await.
ChangeCurrentPasswordStart(p, actor, oldPassword, newPassword) ==
    /\ Idle(p)
    /\ actor \in DOMAIN accounts
    /\ StartGoto(p, Request("changeCurrentPassword", actor, AbsentId, AbsentId,
                            [oldPassword |-> oldPassword,
                             newPassword |-> newPassword]),
                 "cp_find")
    /\ UNCHANGED <<store, userStore, hist>>

\* User.findById(req.user._id), user.isPasswordCorrect(oldPassword) and the
\* 401 check.
ChangeCurrentPasswordFind(p) ==
    /\ pc[p] = "cp_find"
    /\ IF ~isPasswordCorrect(req[p].actor, req[p].body.oldPassword)
       THEN Finish(p, ApiError(401, "Invalid password"))
       ELSE Goto(p, "cp_save", Null)
    /\ UNCHANGED <<store, userStore, hist>>

\* user.password = newPassword; user.save(): the new password is stored
\* hashed; the 200 with empty data.
ChangeCurrentPasswordSave(p) ==
    /\ pc[p] = "cp_save"
    /\ accounts' = [accounts EXCEPT
           ![req[p].actor].password = Hash(req[p].body.newPassword)]
    /\ Finish(p, ApiResponse(200, NoData, Text("Password changed successfully")))
    /\ UNCHANGED <<store, issued, hist>>

GetCurrentUserSteps(p, A) ==
    \E actor \in A : GetCurrentUser(p, actor)

UpdateAccountDetailsSteps(p, A, N, E) ==
    \/ \E actor \in A, fullName \in N, email \in E :
          UpdateAccountDetailsStart(p, actor, fullName, email)
    \/ UpdateAccountDetailsUpdate(p)

UpdateUserAvatarSteps(p, A) ==
    \/ \E actor \in A, file \in BOOLEAN : UpdateUserAvatarStart(p, actor, file)
    \/ UpdateUserAvatarFind(p)
    \/ UpdateUserAvatarUpload(p)

UpdateUserCoverImageSteps(p, A) ==
    \/ \E actor \in A, file \in BOOLEAN :
          UpdateUserCoverImageStart(p, actor, file)
    \/ UpdateUserCoverImageFind(p)

ChangeCurrentPasswordSteps(p, A, W) ==
    \/ \E actor \in A, oldPassword \in W, newPassword \in W :
          ChangeCurrentPasswordStart(p, actor, oldPassword, newPassword)
    \/ ChangeCurrentPasswordFind(p)
    \/ ChangeCurrentPasswordSave(p)

\* ------------------------------------------------------------------ dashboard
\* The published videos a channel owns.
ChannelVideoIds(channelId) ==
    {v \in DOMAIN videos :
        videos[v].owner = channelId /\ videos[v].isPublished}

RECURSIVE SumViews(_)
\* { $sum: "$views" } over a set of videos.
SumViews(V) ==
    IF V = {} THEN 0
    ELSE LET v == CHOOSE x \in V : TRUE
         IN videos[v].views + SumViews(V \ {v})

\* The figures the handler gathers for a channel: Subscription.countDocuments
\* ({ channel }), the $group over the published videos of the channel, and
\* Like.countDocuments({ video: { $in: ids } }).
ChannelStats(channelId) ==
    [totalSubscribers |-> Cardinality({x \in subs : x.channel = channelId}),
     totalVideos |-> Cardinality(ChannelVideoIds(channelId)),
     totalVideoViews |-> SumViews(ChannelVideoIds(channelId)),
     totalLikes |-> Cardinality({l \in likes :
                       l.kind = "video" /\ l.target \in ChannelVideoIds(channelId)})]

\* getChannelStats up to its first await.  `const { channelId } =
\* req.user?._id` reads the property channelId of the id: destructuring
\* undefined throws when there is no actor, and the id of an actor has no
\* such property, so channelId is undefined.  isValidObjectId(undefined) is
\* false, or true in a Mongoose release that lets null pass.
GetChannelStatsStart(p, actor) ==
    /\ Idle(p)
    /\ LET rq == Request("getChannelStats", actor, AbsentId, AbsentId, NoData) IN
       IF actor = NoUser
       THEN StartFinish(p, rq,
                UncaughtError("Cannot destructure property 'channelId'"))
       ELSE \E lenient \in BOOLEAN :
               IF ~lenient
               THEN StartFinish(p, rq,
                        ApiError(400, "Invalid channel ID provided"))
               ELSE StartGoto(p, rq, "cs_channel")
    /\ hist' = Null
    /\ UNCHANGED userStore
    /\ UNCHANGED store

\* User.findById(channelId) with channelId undefined finds no account: 404.
GetChannelStatsChannel(p) ==
    /\ pc[p] = "cs_channel"
    /\ Finish(p, ApiError(404, "Channel not found"))
    /\ hist' = Null
    /\ UNCHANGED userStore
    /\ UNCHANGED store

\* getChannelVideos up to its first await: channelId is req.user?._id, and
\* the only check is isValidObjectId(channelId).  With no actor channelId is
\* undefined: the check answers 400, or lets it pass in a Mongoose release
\* whose isValidObjectId accepts null.
GetChannelVideosStart(p, actor, page, limit) ==
    /\ Idle(p)
    /\ LET rq == Request("getChannelVideos", actor, AbsentId, AbsentId,
                         [page |-> page, limit |-> limit]) IN
       \E lenient \in BOOLEAN :
          IF actor = NoUser /\ ~lenient
          THEN StartFinish(p, rq, ApiError(400, "Invalid channel ID provided"))
          ELSE StartGoto(p, rq, "cv_channel")
    /\ hist' = Null
    /\ UNCHANGED userStore
    /\ UNCHANGED store

\* User.findById(channelId) and the 404 check; parseInt of page and limit;
\* the pipeline is built.
GetChannelVideosChannel(p) ==
    /\ pc[p] = "cv_channel"
    /\ IF req[p].actor \notin DOMAIN accounts
       THEN Finish(p, ApiError(404, "Channel not found"))
       ELSE Goto(p, "cv_paginate", Null)
    /\ hist' = Null
    /\ UNCHANGED userStore
    /\ UNCHANGED store

\* await Video.aggregatePaginate(Video.aggregate(aggregatePipeline), options).
\* The $lookup stage names its local field `localfield`; the server knows
\* no such argument and rejects the pipeline.
GetChannelVideosPaginate(p) ==
    /\ pc[p] = "cv_paginate"
    /\ Finish(p, UncaughtError("unknown argument to $lookup: localfield"))
    /\ hist' = Null
    /\ UNCHANGED userStore
    /\ UNCHANGED store

\* ------------------------------------------------------------------ Init
Init ==
    /\ videos = SeedVideos
    /\ comments = SeedComments
    /\ tweets = SeedTweets
    /\ playlists = SeedPlaylists
    /\ likes = {}
    /\ subs = SeedSubs
    /\ nextLikeId = 1
    /\ accounts = SeedAccounts
    /\ issued = {}
    /\ pc = [p \in Procs |-> "idle"]
    /\ req = [p \in Procs |-> Null]
    /\ loc = [p \in Procs |-> Null]
    /\ resp = [p \in Procs |-> Null]
    /\ hist = Null
    /\ seen = Null

\* ------------------------------------------------------------------ like toggles
LikeStep(p) ==
    \/ \E kind \in LikeKinds, actor \in Actors :
          \E id \in TargetIds(kind) \cup {AbsentId, BadId} :
            ToggleLikeStart(p, kind, actor, id)
    \/ ToggleLikeTarget(p)
    \/ ToggleLikeFind(p)
    \/ ToggleLikeWrite(p)

NextLike ==
    \E p \in Procs : LikeStep(p)

SpecLike == Init /\ [][NextLike]_vars

\* ------------------------------------------------------------------ subscription toggle
SubStep(p) ==
    \/ \E actor \in Actors, channelId \in Users \cup {AbsentId, BadId} :
          ToggleSubscriptionStart(p, actor, channelId)
    \/ ToggleSubscriptionChannel(p)
    \/ ToggleSubscriptionFind(p)
    \/ ToggleSubscriptionWrite(p)

NextSub ==
    \E p \in Procs : SubStep(p)

SpecSub == Init /\ [][NextSub]_vars

\* ------------------------------------------------------------------ requests by handler
\* Each operator is one handler on slot p, its inputs drawn from the given
\* sets of actors and ids.
ToggleSubscriptionSteps(p, A, I) ==
    \/ \E actor \in A, channelId \in I :
          ToggleSubscriptionStart(p, actor, channelId)
    \/ ToggleSubscriptionChannel(p)
    \/ ToggleSubscriptionFind(p)
    \/ ToggleSubscriptionWrite(p)

UpdateCommentSteps(p, A, I, B) ==
    \/ \E actor \in A, id \in I, content \in B :
          UpdateCommentStart(p, actor, id, content)
    \/ UpdateCommentUpdate(p)

DeleteCommentSteps(p, A, I) ==
    \/ \E actor \in A, id \in I : DeleteCommentStart(p, actor, id)
    \/ DeleteCommentDelete(p)

AddCommentSteps(p, A, I) ==
    \/ \E actor \in A, id \in I, content \in Contents :
          AddCommentStart(p, actor, id, content)
    \/ AddCommentVideo(p)

GetVideoCommentsSteps(p, I, P, L) ==
    \/ \E id \in I, page \in P, limit \in L :
          GetVideoCommentsStart(p, id, page, limit)
    \/ GetVideoCommentsFind(p)
    \/ GetVideoCommentsPaginate(p)

UpdateTweetSteps(p, A, I, B) ==
    \/ \E actor \in A, id \in I, content \in B :
          UpdateTweetStart(p, actor, id, content)
    \/ UpdateTweetUpdate(p)

DeleteTweetSteps(p, A, I) ==
    \/ \E actor \in A, id \in I : DeleteTweetStart(p, actor, id)
    \/ DeleteTweetDelete(p)

UpdatePlaylistSteps(p, A, I, B) ==
    \/ \E actor \in A, id \in I, name \in B, description \in B :
          UpdatePlaylistStart(p, actor, id, name, description)
    \/ UpdatePlaylistUpdate(p)

DeletePlaylistSteps(p, A, I) ==
    \/ \E actor \in A, id \in I : DeletePlaylistStart(p, actor, id)
    \/ DeletePlaylistDelete(p)

AddVideoToPlaylistSteps(p, A, I, V) ==
    \/ \E actor \in A, id \in I, videoId \in V :
          AddVideoToPlaylistStart(p, actor, id, videoId)
    \/ AddVideoToPlaylistVideo(p)
    \/ AddVideoToPlaylistFind(p)
    \/ AddVideoToPlaylistSave(p)

RemoveVideoFromPlaylistSteps(p, A, I, V) ==
    \/ \E actor \in A, id \in I, videoId \in V :
          RemoveVideoFromPlaylistStart(p, actor, id, videoId)
    \/ RemoveVideoFromPlaylistFind(p)
    \/ RemoveVideoFromPlaylistPull(p)

UpdateVideoSteps(p, A, I, B) ==
    \/ \E actor \in A, id \in I, title \in B, description \in B,
          file \in BOOLEAN :
          UpdateVideoStart(p, actor, id, title, description, file)
    \/ UpdateVideoFind(p)
    \/ UpdateVideoUpload(p)
    \/ UpdateVideoUpdate(p)

PublishAVideoSteps(p, A, B, F) ==
    \/ \E actor \in A, title \in B, description \in B, files \in F :
          PublishAVideoStart(p, actor, title, description, files)
    \/ PublishAVideoUpload(p)
    \/ PublishAVideoCreate(p)

DeleteVideoSteps(p, A, I) ==
    \/ \E actor \in A, id \in I : DeleteVideoStart(p, actor, id)
    \/ DeleteVideoDelete(p)

TogglePublishStatusSteps(p, A, I) ==
    \/ \E actor \in A, id \in I : TogglePublishStatusStart(p, actor, id)
    \/ TogglePublishStatusFind(p)
    \/ TogglePublishStatusSave(p)

GetVideoByIdSteps(p, A, I) ==
    \/ \E actor \in A, id \in I : GetVideoByIdStart(p, actor, id)
    \/ GetVideoByIdAggregate(p)
    \/ GetVideoByIdIncrement(p)
    \/ GetVideoByIdSubscription(p)

GetLikedVideosSteps(p, A, P, L) ==
    \/ \E actor \in A, page \in P, limit \in L :
          GetLikedVideosStart(p, actor, page, limit)
    \/ GetLikedVideosPaginate(p)

GetChannelStatsSteps(p, A) ==
    \/ \E actor \in A : GetChannelStatsStart(p, actor)
    \/ GetChannelStatsChannel(p)

GetChannelVideosSteps(p, A, P, L) ==
    \/ \E actor \in A, page \in P, limit \in L :
          GetChannelVideosStart(p, actor, page, limit)
    \/ GetChannelVideosChannel(p)
    \/ GetChannelVideosPaginate(p)

CreatePlaylistSteps(p, A, B) ==
    \/ \E actor \in A, name \in B, description \in B :
          CreatePlaylistStart(p, actor, name, description)
    \/ CreatePlaylistCreate(p)

GetAllVideosSteps(p, I, P, L) ==
    \/ \E userId \in I, page \in P, limit \in L :
          GetAllVideosStart(p, userId, page, limit)
    \/ GetAllVideosUser(p)
    \/ GetAllVideosPaginate(p)

ToggleVideoLikeSteps(p, A, I) ==
    \/ \E actor \in A, id \in I : ToggleLikeStart(p, "video", actor, id)
    \/ ToggleLikeTarget(p)
    \/ ToggleLikeFind(p)
    \/ ToggleLikeWrite(p)

\* ------------------------------------------------------------------ owner-scoped mutations
\* The eleven owner-scoped handlers, one request at a time.
NextOwner ==
    \E p \in {"r1"} :
        \/ UpdateCommentSteps(p, Users, {"c1", AbsentId}, {" new "})
        \/ DeleteCommentSteps(p, Users, {"c1", AbsentId})
        \/ UpdateTweetSteps(p, Users, {"t1", AbsentId}, {" new "})
        \/ DeleteTweetSteps(p, Users, {"t1", AbsentId})
        \/ UpdatePlaylistSteps(p, Users, {"p1", AbsentId}, {" new "})
        \/ DeletePlaylistSteps(p, Users, {"p1", AbsentId})
        \/ AddVideoToPlaylistSteps(p, Users, {"p1", AbsentId}, {"v1"})
        \/ RemoveVideoFromPlaylistSteps(p, Users, {"p1", AbsentId}, {"v1"})
        \/ UpdateVideoSteps(p, Users, {"v1", AbsentId}, {" new "})
        \/ DeleteVideoSteps(p, Users, {"v1", AbsentId})
        \/ TogglePublishStatusSteps(p, Users, {"v1", AbsentId})

SpecOwner == Init /\ [][NextOwner]_vars

\* ------------------------------------------------------------------ video mutations
NextVideo ==
    \E p \in Procs :
        \/ UpdateVideoSteps(p, Users, {"v1"}, {" new "})
        \/ DeleteVideoSteps(p, Users, {"v1"})
        \/ TogglePublishStatusSteps(p, Users, {"v1"})
        \/ GetVideoByIdSteps(p, Actors, {"v1"})

SpecVideo == Init /\ [][NextVideo]_vars

\* ------------------------------------------------------------------ video deletion and its dependents
NextCascade ==
    \E p \in Procs :
        \/ DeleteVideoSteps(p, Users, {"v1"})
        \/ ToggleVideoLikeSteps(p, Users, {"v1"})
        \/ AddCommentSteps(p, Users, {"v1"})
        \/ AddVideoToPlaylistSteps(p, Users, {"p1"}, {"v1"})

SpecCascade == Init /\ [][NextCascade]_vars

\* ------------------------------------------------------------------ playlist membership
NextPlaylist ==
    \E p \in Procs :
        \/ AddVideoToPlaylistSteps(p, {"u1"}, {"p1"}, {"v1", "v2"})
        \/ RemoveVideoFromPlaylistSteps(p, {"u1"}, {"p1"}, {"v1", "v2"})

SpecPlaylist == Init /\ [][NextPlaylist]_vars

\* ------------------------------------------------------------------ registration
NextRegister ==
    \E p \in Procs : RegisterUserSteps(p, Handles, Emails, Contents, Files)

SpecRegister == Init /\ [][NextRegister]_vars

\* ------------------------------------------------------------------ sessions of an account
NextSession ==
    \E p \in Procs :
        \/ LoginUserSteps(p, {"alice", Absent}, {"a@x", Absent}, Passwords)
        \/ GenerateTokensSteps(p)
        \/ LogoutUserSteps(p, {"u1"})
        \/ RefreshAccessTokenSteps(p, RefreshTokens({"u1"}) \cup {Null, ForgedToken})

SpecSession == Init /\ [][NextSession]_vars

\* loginUser as each file of the repository that defines it has it.
NextLogin ==
    \E p \in Procs :
        \/ LoginUserSteps(p, {"alice", Absent}, {"a@x", Absent}, Passwords)
        \/ \E username \in {"alice", Absent}, email \in {"a@x", Absent},
              password \in Passwords :
              LoginUserStartEitherMissing(p,
                  [password |-> password, username |-> username,
                   email |-> email])
        \/ GenerateTokensSteps(p)
        \/ LogoutUserSteps(p, {"u1"})

SpecLogin == Init /\ [][NextLogin]_vars

\* ------------------------------------------------------------------ the account handlers
NextAccount ==
    \E p \in Procs :
        \/ RegisterUserSteps(p, {"Alice", "carol"}, {"c@x"}, {" new "}, {"both"})
        \/ LoginUserSteps(p, {"alice"}, {Absent}, Passwords)
        \/ GenerateTokensSteps(p)
        \/ GetCurrentUserSteps(p, {"u1", "u3"})
        \/ UpdateAccountDetailsSteps(p, {"u1"}, {"new", Absent}, {"a@x", "b@x", "c@x"})
        \/ UpdateUserAvatarSteps(p, {"u1"})
        \/ UpdateUserCoverImageSteps(p, {"u1"})
        \/ ChangeCurrentPasswordSteps(p, {"u1"}, Passwords)

SpecAccount == Init /\ [][NextAccount]_vars

\* ------------------------------------------------------------------ owner-authenticated updates
NextUpdate ==
    \E p \in Procs :
        \/ UpdateCommentSteps(p, {"u1"}, {"c1"}, Contents)
        \/ UpdateTweetSteps(p, {"u1"}, {"t1"}, {" new "})
        \/ UpdatePlaylistSteps(p, {"u1"}, {"p1"}, Contents)
        \/ UpdateVideoSteps(p, {"u1"}, {"v1"}, {" new "})
        \/ UpdateAccountDetailsSteps(p, {"u1"}, {"new"}, {"a@x", "c@x"})
        \/ UpdateUserAvatarSteps(p, {"u1"})
        \/ UpdateUserCoverImageSteps(p, {"u1"})

SpecUpdate == Init /\ [][NextUpdate]_vars

\* ------------------------------------------------------------------ validation
NextValidation ==
    \E p \in Procs :
        \/ ToggleSubscriptionSteps(p, {"u1"}, {"u1", "u2", BadId})
        \/ PublishAVideoSteps(p, {"u1"}, Contents, VideoFiles)
        \/ UpdateUserAvatarSteps(p, {"u1"})
        \/ UpdateVideoSteps(p, {"u1"}, {"v1", BadId}, Contents)

SpecValidation == Init /\ [][NextValidation]_vars

\* ------------------------------------------------------------------ response envelopes
\* Values of req.query.page and req.query.limit: not sent, or a numeral.
Pages == {Absent, "2"}
Limits == {"1", Absent}

NextEnvelope ==
    \E p \in Procs :
        \/ GetVideoCommentsSteps(p, {"v1", "v2", AbsentId, BadId}, Pages, Limits)
        \/ Healthcheck(p)
        \/ UpdateCommentSteps(p, {"u1"}, {"c1"}, {" new "})
        \/ DeleteCommentSteps(p, {"u1"}, {"c1"})
        \/ TogglePublishStatusSteps(p, {"u1"}, {"v1"})

SpecEnvelope == Init /\ [][NextEnvelope]_vars

\* ------------------------------------------------------------------ cleanup of external assets
NextCleanup ==
    \E p \in Procs :
        \/ PublishAVideoSteps(p, {"u1"}, {" new "}, {"video", "both"})
        \/ UpdateVideoSteps(p, {"u1"}, {"v1"}, {" new "})
        \/ DeleteVideoSteps(p, {"u1"}, {"v1"})
        \/ UpdateUserAvatarSteps(p, {"u1"})
        \/ UpdateUserCoverImageSteps(p, {"u1"})

SpecCleanup == Init /\ [][NextCleanup]_vars

\* ------------------------------------------------------------------ liked videos
NextLiked ==
    \E p \in Procs :
        \/ ToggleVideoLikeSteps(p, Users, {"v1", "v2"})
        \/ GetLikedVideosSteps(p, Actors, {Absent}, {Absent})

SpecLiked == Init /\ [][NextLiked]_vars

\* ------------------------------------------------------------------ channel statistics
NextStats ==
    \E p \in Procs :
        \/ GetChannelStatsSteps(p, Users)
        \/ ToggleVideoLikeSteps(p, {"u2"}, {"v1"})
        \/ ToggleSubscriptionSteps(p, {"u2"}, {"u1"})

SpecStats == Init /\ [][NextStats]_vars

\* ------------------------------------------------------------------ requests without an actor
\* Requests without an authenticated actor to the handlers that act on
\* behalf of the actor, next to a channel owner who creates playlists and
\* looks at the dashboard.
NextUnauth ==
    \E p \in Procs :
        \/ AddCommentStart(p, NoUser, "v1", " new ")
        \/ UpdateCommentStart(p, NoUser, "c1", " new ")
        \/ DeleteCommentStart(p, NoUser, "c1")
        \/ \E kind \in LikeKinds :
              \E id \in TargetIds(kind) : ToggleLikeStart(p, kind, NoUser, id)
        \/ GetLikedVideosStart(p, NoUser, Absent, Absent)
        \/ ToggleSubscriptionStart(p, NoUser, "u1")
        \/ UpdateTweetStart(p, NoUser, "t1", " new ")
        \/ DeleteTweetStart(p, NoUser, "t1")
        \/ PublishAVideoStart(p, NoUser, " new ", " new ", "both")
        \/ UpdateVideoStart(p, NoUser, "v1", " new ", " new ", FALSE)
        \/ DeleteVideoStart(p, NoUser, "v1")
        \/ TogglePublishStatusStart(p, NoUser, "v1")
        \/ UpdatePlaylistStart(p, NoUser, "p1", " new ", " new ")
        \/ DeletePlaylistStart(p, NoUser, "p1")
        \/ AddVideoToPlaylistStart(p, NoUser, "p1", "v1")
        \/ RemoveVideoFromPlaylistStart(p, NoUser, "p1", "v1")
        \/ CreatePlaylistSteps(p, {NoUser, "u1"}, {" new "})
        \/ GetChannelStatsSteps(p, {NoUser, "u1"})
        \/ GetChannelVideosSteps(p, {NoUser, "u1"}, {Absent}, {Absent})

SpecUnauth == Init /\ [][NextUnauth]_vars

\* ------------------------------------------------------------------ paginated listings
\* Listings with a page and a limit that are positive numerals or not sent,
\* while the owner of v1 and c1 changes what there is to list.
NextListing ==
    \E p \in Procs :
        \/ GetVideoCommentsSteps(p, {"v1", "v2"}, Pages, Limits)
        \/ GetAllVideosSteps(p, {Absent, "u1"}, Pages, Limits)
        \/ GetLikedVideosSteps(p, {"u1"}, {Absent}, {Absent})
        \/ GetChannelVideosSteps(p, {"u1"}, {Absent}, {Absent})
        \/ TogglePublishStatusSteps(p, {"u1"}, {"v1"})
        \/ DeleteCommentSteps(p, {"u1"}, {"c1"})

SpecListing == Init /\ [][NextListing]_vars

\* ------------------------------------------------------------------ page and limit values
\* Listings with every kind of page and limit value, one request at a time.
NextQuery ==
    \E p \in {"r1"} :
        \/ GetVideoCommentsSteps(p, {"v1"}, QueryTexts \cup {Absent},
                                 QueryTexts \cup {Absent})
        \/ GetAllVideosSteps(p, {Absent, "u1"}, QueryTexts \cup {Absent},
                             QueryTexts \cup {Absent})
        \/ GetLikedVideosSteps(p, {"u1"}, QueryTexts, QueryTexts)
        \/ GetChannelVideosSteps(p, {"u1"}, QueryTexts, QueryTexts)

SpecQuery == Init /\ [][NextQuery]_vars

\* C1: under any interleaving of the like toggles there is at most one Like
\* document per (actor, target).
C1_LikeUniquePerActorTarget ==
    \A l, m \in likes :
        (l.kind = m.kind /\ l.target = m.target /\ l.likedBy = m.likedBy)
            => l.id = m.id

\* The membership state of (actor, target): a Like document for it exists.
IsLiked(kind, id, actor) == LikesMatching(kind, id, actor) # {}

\* A run of toggles on one (actor, target) with no other request interleaved
\* has just finished a toggle.
HistSettled == hist # Null /\ pc[hist.runner] = "done"

\* C2: with no other request interleaved, an even number of toggles of
\* (actor, target) leaves the existence of the Like as it was before the
\* first, and an odd number flips it.
C2_DoubleToggleRestores ==
    HistSettled =>
        (IsLiked(hist.kind, hist.target, hist.actor)
            = (IF hist.n = 0 THEN hist.before ELSE ~hist.before))

\* C3: after a successful toggle run without interleaving, isLiked in the
\* response equals whether a Like for (actor, target) exists in the store.
C3_IsLikedMatchesStore ==
    (HistSettled /\ resp[hist.runner].statusCode = 200) =>
        (resp[hist.runner].data.isLiked
            = IsLiked(hist.kind, hist.target, hist.actor))

\* The step in which toggleSubscription on slot p deletes or creates and
\* answers, the store still being as its findOne saw it.
SubToggleAnswers(p) ==
    /\ pc[p] = "sub_write" /\ pc'[p] = "done"
    /\ (loc[p].id # 0) = (SubsMatching(req[p].actor, req[p].id) # {})

\* C4: toggleSubscription by S on an existing channel C # S deletes an
\* existing Subscription (S, C) and answers 200 subscribed false; when none
\* exists it creates exactly one and answers 200 subscribed true.
C4_ToggleSubscriptionCreatesOrDeletes ==
    [][\A p \in Procs :
         SubToggleAnswers(p) =>
            /\ resp'[p].statusCode = 200
            /\ IF loc[p].id # 0
               THEN /\ resp'[p].data = [subscribed |-> FALSE]
                    /\ SubsMatchingIn(subs', req[p].actor, req[p].id) = {}
               ELSE /\ resp'[p].data = [subscribed |-> TRUE]
                    /\ Cardinality(SubsMatchingIn(subs', req[p].actor, req[p].id)) = 1
      ]_vars

\* Slot p holds a toggleSubscription request of an authenticated actor on
\* the actor's own id.
SelfSubscribeRequest(rq) ==
    /\ rq # Null
    /\ rq.h = "toggleSubscription"
    /\ rq.actor # NoUser
    /\ rq.id = rq.actor

NoSelfSubscription ==
    \A s \in subs : s.subscriber # s.channel

SelfSubscribeAnswered400 ==
    \A p \in Procs :
        (pc[p] = "done" /\ SelfSubscribeRequest(req[p])) =>
            /\ resp[p].statusCode = 400
            /\ resp[p].message = Text("You cannot subscribe to your own channel")

\* C5: no Subscription has subscriber = channel; toggleSubscription on the
\* actor's own id answers 400, and no step of such a request changes the
\* Subscription collection.
C5_NoSelfSubscription ==
    /\ [](NoSelfSubscription /\ SelfSubscribeAnswered400)
    /\ [][\A p \in Procs :
            (SelfSubscribeRequest(req'[p]) /\ pc'[p] # pc[p]) => subs' = subs
         ]_vars

C5_Witness ==
    \E p \in Procs :
        /\ pc[p] = "done" /\ SelfSubscribeRequest(req[p])
        /\ resp[p].statusCode = 400
        /\ subs # {}

\* C6: an owner-scoped handler (updateComment, deleteComment, updateTweet,
\* deleteTweet, updatePlaylist, deletePlaylist, addVideoToPlaylist,
\* removeVideoFromPlaylist, updateVideo, deleteVideo, togglePublishStatus)
\* answers a caller who does not own the resource exactly as it answers a
\* request for an id that does not exist: the same 404, the same body.
C6_NotOwnerSameAsAbsent ==
    \A p \in Procs :
        LookupRefused(p) =>
            /\ resp[p].statusCode = 404
            /\ (seen # Null /\ seen.case # loc[p].case) => resp[p] = seen.resp

C6_Witness ==
    \E p \in Procs :
        /\ LookupRefused(p) /\ loc[p].case = "notowner"
        /\ seen # Null /\ seen.case = "absent"
        /\ resp[p] = seen.resp /\ resp[p].statusCode = 404

\* What of a video only its owner may change.
OwnerControlled(coll, v) ==
    IF v \in DOMAIN coll
    THEN [title |-> coll[v].title, description |-> coll[v].description,
          thumbnail |-> coll[v].thumbnail, isPublished |-> coll[v].isPublished]
    ELSE Null

VideoMutators == {"updateVideo", "deleteVideo", "togglePublishStatus"}

\* C7: the title, description, thumbnail, published flag and existence of a
\* video change only in a step of updateVideo, deleteVideo or
\* togglePublishStatus requested by the video's owner.
C7_OnlyOwnerChangesVideo ==
    [][\A v \in DOMAIN videos :
          OwnerControlled(videos', v) # OwnerControlled(videos, v) =>
              \E p \in Procs :
                  /\ pc'[p] # pc[p]
                  /\ req[p].h \in VideoMutators
                  /\ req[p].id = v
                  /\ req[p].actor = videos[v].owner]_vars

C7_Witness ==
    \E p, q \in Procs :
        /\ pc[p] = "done" /\ req[p].h \in VideoMutators
        /\ req[p].actor = "u2" /\ req[p].id = "v1"
        /\ resp[p].statusCode = 404
        /\ pc[q] = "done" /\ req[q].h = "getVideoById"
        /\ req[q].actor = "u2" /\ resp[q].statusCode = 200
        /\ "v1" \in DOMAIN videos
        /\ videos["v1"].views > 0
        /\ OwnerControlled(videos, "v1") = OwnerControlled(SeedVideos, "v1")

\* What still refers to video v: its likes, its comments, the playlists
\* that list it.
Dependents(v) ==
    [likes |-> {l \in likes : l.kind = "video" /\ l.target = v},
     comments |-> {c \in DOMAIN comments : comments[c].video = v},
     playlists |-> {l \in DOMAIN playlists : Includes(playlists[l].videos, v)}]

NoDependents == [likes |-> {}, comments |-> {}, playlists |-> {}]

\* C8: once deleteVideo has run for the owner of video V, the video, its
\* likes, its comments and its playlist memberships are gone and the
\* answer is 200.
C8_DeleteVideoCascades ==
    \A p \in Procs :
        (/\ pc[p] = "done" /\ req[p].h = "deleteVideo"
         /\ loc[p] # Null /\ loc[p].k = "lookup" /\ loc[p].case = "owner"
         /\ \A q \in Procs \ {p} : pc[q] = "idle")
        => /\ resp[p].statusCode = 200
           /\ ~Exists(videos, req[p].id)
           /\ Dependents(req[p].id) = NoDependents

\* C9: while no request is in flight, every like of a video, every comment
\* and every playlist membership refers to a video that exists.
C9_NoDanglingVideoReferences ==
    (\A p \in Procs : Idle(p)) =>
        /\ \A l \in likes : l.kind = "video" => Exists(videos, l.target)
        /\ \A c \in DOMAIN comments : Exists(videos, comments[c].video)
        /\ \A l \in DOMAIN playlists :
              \A i \in 1..Len(playlists[l].videos) :
                  Exists(videos, playlists[l].videos[i])

\* C10: a playlist lists each video id at most once, whatever the
\* interleaving of addVideoToPlaylist and removeVideoFromPlaylist.
C10_PlaylistVideosUnique ==
    \A l \in DOMAIN playlists :
        \A i, j \in 1..Len(playlists[l].videos) :
            playlists[l].videos[i] = playlists[l].videos[j] => i = j

\* The playlist read of slot p finds the owner's playlist; member tells
\* whether the requested video is on its list.
MembershipRead(p, label, member) ==
    /\ pc[p] = label
    /\ pc'[p] # label
    /\ FindOwned(playlists, req[p].id, req[p].actor) # Null
    /\ Includes(playlists[req[p].id].videos, req[p].id2) = member

\* C11: for the owner of a playlist and an existing video,
\* addVideoToPlaylist of a video already on the list answers 409 and
\* removeVideoFromPlaylist of a video not on the list answers 404; either
\* way the playlist is left as it was.
C11_RejectedMembershipChange ==
    [][\A p \in Procs :
          /\ MembershipRead(p, "avp_playlist", TRUE) =>
                /\ pc'[p] = "done"
                /\ resp'[p] = ApiError(409, "Video already exists in the playlist")
                /\ playlists' = playlists
          /\ MembershipRead(p, "rvp_playlist", FALSE) =>
                /\ pc'[p] = "done"
                /\ resp'[p] = ApiError(404, "Video not found in the playlist")
                /\ playlists' = playlists]_vars

C11_Witness ==
    \E p, q \in Procs :
        /\ pc[p] = "done" /\ req[p].h = "addVideoToPlaylist"
        /\ resp[p].statusCode = 409
        /\ pc[q] = "done" /\ req[q].h = "removeVideoFromPlaylist"
        /\ resp[q] = ApiError(404, "Video not found in the playlist")
        /\ "p1" \in DOMAIN playlists

\* The members of a list other than x, in their order.
OtherMembers(list, x) == SelectSeq(list, LAMBDA y : y # x)

\* C12: for the owner of a playlist and an existing video not on its list,
\* with no other request interleaved: a successful addVideoToPlaylist puts
\* the video on the list exactly once, after the other members, which keep
\* their order; a successful removeVideoFromPlaylist that follows leaves
\* the list as it was before the add.
C12_AddThenRemoveRestores ==
    (/\ hist # Null /\ hist.kind = "playlist"
     /\ ~Includes(hist.before, hist.video)) =>
        /\ hist.stage = "added" =>
              LET list == playlists[hist.target].videos IN
              /\ Cardinality({i \in 1..Len(list) : list[i] = hist.video}) = 1
              /\ OtherMembers(list, hist.video) = hist.before
        /\ hist.stage = "removed" =>
              /\ playlists[hist.target].videos = hist.before
              /\ ~Includes(playlists[hist.target].videos, hist.video)

C12_Witness ==
    /\ hist # Null /\ hist.kind = "playlist" /\ hist.stage = "removed"
    /\ hist.before # <<>>
    /\ ~Includes(hist.before, hist.video)
    /\ playlists[hist.target].videos = hist.before
    /\ resp[hist.runner].statusCode = 200

\* Slot p leaves the await it is suspended at.
Leaves(p, label) == pc[p] = label /\ pc'[p] # label

\* C13: a fetch of a video by an anonymous caller or by an actor who is not
\* its owner raises the stored view counter by exactly 1, a fetch by the
\* owner leaves it alone, and nothing else changes the counter; so the
\* counter is its first value plus the number of fetches by others.
C13_ViewsCountFetches ==
    [][/\ \A v \in (DOMAIN videos) \cap (DOMAIN videos') :
             videos'[v].views # videos[v].views =>
                 /\ videos'[v].views = videos[v].views + 1
                 /\ \E p \in Procs :
                       /\ Leaves(p, "gv_inc") /\ req[p].id = v
                       /\ req[p].actor # videos[v].owner
       /\ \A p \in Procs :
             /\ (Leaves(p, "gv_aggregate") /\ Exists(videos, req[p].id)) =>
                   IF req[p].actor = videos[req[p].id].owner
                   THEN pc'[p] = "done" /\ resp'[p].statusCode = 200
                   ELSE pc'[p] = "gv_inc"
             /\ (Leaves(p, "gv_inc") /\ Exists(videos, req[p].id)) =>
                   /\ videos'[req[p].id].views = videos[req[p].id].views + 1
                   /\ pc'[p] \in {"gv_sub", "done"}
             /\ Leaves(p, "gv_sub") =>
                   pc'[p] = "done" /\ resp'[p].statusCode = 200]_vars

C13_Witness ==
    \E p, q \in Procs :
        /\ pc[p] = "done" /\ req[p].h = "getVideoById"
        /\ req[p].actor # "u1" /\ resp[p].statusCode = 200
        /\ pc[q] = "done" /\ req[q].h = "getVideoById"
        /\ req[q].actor = "u1" /\ resp[q].statusCode = 200
        /\ Exists(videos, "v1") /\ videos["v1"].views = 2
        /\ resp[q].data.views = 2

\* C14: every request gets exactly one response, whatever path its handler
\* takes: a handler that has run to its end has sent a response.
C14_EveryRequestAnswered ==
    \A p \in Procs : pc[p] = "done" => resp[p] # Null

\* No two accounts have handles that are equal ignoring case.
HandlesUnique ==
    \A u, w \in DOMAIN accounts :
        Lower(accounts[u].username) = Lower(accounts[w].username) => u = w

\* The lookup of registerUser on slot p runs while an account has the
\* requested handle in some casing.
RegisterMeetsHandle(p) ==
    /\ Leaves(p, "ru_find")
    /\ \E u \in DOMAIN accounts :
          Lower(accounts[u].username) = Lower(req[p].body.username)

\* C15: registerUser with the handle of a registered account, in the same
\* or in another casing, answers 409 and creates no account; no two
\* accounts ever have handles that are equal ignoring case.
C15_HandleConflictIgnoresCase ==
    /\ []HandlesUnique
    /\ [][\A p \in Procs : RegisterMeetsHandle(p) =>
            /\ pc'[p] = "done"
            /\ resp'[p] = ApiError(409,
                   "User with email or username already exists")
            /\ accounts' = accounts]_vars

C15_Witness ==
    \E p \in Procs :
        /\ pc[p] = "done" /\ req[p].h = "registerUser"
        /\ req[p].body.username = "Alice" /\ req[p].body.email = "c@x"
        /\ resp[p] # Null /\ resp[p].statusCode = 409
        /\ \E u \in DOMAIN accounts : accounts[u].username = "alice"

\* An account has logged out and no session credential has been stored for
\* it since.
LoggedOutNow == hist # Null /\ hist.kind = "session"

\* C17: the session credential a successful loginUser stores for the
\* account is the one it returns; after a successful logoutUser the stored
\* session credential of the account is absent, and refreshAccessToken with
\* a credential issued before the logout is answered 401.
C17_SessionCredentialLifecycle ==
    [][/\ LoggedOutNow' => accounts'[hist'.actor].refreshToken = Null
       /\ \A p \in Procs :
            /\ (Leaves(p, "gt_save") /\ req[p].h = "loginUser") =>
                  accounts'[loc[p].id].refreshToken = loc[p].refreshToken
            /\ Leaves(p, "lu_read") =>
                  resp'[p].data.refreshToken = loc[p].refreshToken
            /\ (/\ Leaves(p, "ra_find") /\ LoggedOutNow
                 /\ req[p].body.refreshToken.sub = hist.actor) =>
                  /\ pc'[p] = "done"
                  /\ resp'[p].statusCode = 401]_vars

AccountHandlers ==
    {"registerUser", "loginUser", "getCurrentUser", "updateAccountDetails",
     "updateUserAvatar", "updateUserCoverImage", "changeCurrentPassword"}

\* The response data carries a password field, at the top or in its user.
CarriesPassword(data) ==
    \/ "password" \in DOMAIN data
    \/ /\ "user" \in DOMAIN data
       /\ "password" \in DOMAIN data.user

UpdateHandlers ==
    {"updateComment", "updateTweet", "updatePlaylist", "updateVideo",
     "updateAccountDetails", "updateUserAvatar", "updateUserCoverImage"}

\* The stored entity the update request of slot p is about.
UpdatedEntity(p) ==
    CASE req[p].h = "updateComment" -> comments[req[p].id]
      [] req[p].h = "updateTweet" -> tweets[req[p].id]
      [] req[p].h = "updatePlaylist" -> playlists[req[p].id]
      [] req[p].h = "updateVideo" -> videos[req[p].id]
      [] OTHER -> accounts[req[p].actor]

\* The fields the update request of slot p asks to write, with the values
\* it asks for.
WrittenFields(p) ==
    LET b == req[p].body IN
    CASE req[p].h \in {"updateComment", "updateTweet"} ->
             [content |-> Trim(b.content)]
      [] req[p].h \in {"updatePlaylist"} ->
             [f \in {g \in {"name", "description"} : Trim(b[g]) # ""}
                 |-> Trim(b[f])]
      [] req[p].h = "updateVideo" ->
             [f \in {g \in {"title", "description"} : Trim(b[g]) # ""}
                 |-> Trim(b[f])]
      [] req[p].h = "updateAccountDetails" ->
             [email |-> b.email, fullName |-> b.fullName]
      [] OTHER -> << >>

\* Slot p is answered by this step with the 200 of an update handler.
UpdateSucceeds(p) ==
    /\ pc[p] # "done"
    /\ pc'[p] = "done"
    /\ req'[p].h \in UpdateHandlers
    /\ resp'[p].statusCode = 200

Answers400(p) ==
    /\ resp'[p] # Null
    /\ resp'[p].statusCode = 400
    /\ \/ pc[p] # "done"
       \/ req'[p] # req[p]
       \/ resp'[p] # resp[p]

\* C20: a request that ends with a 400 validation outcome (a missing or
\* empty required field, a malformed id, a self-subscription, nothing to
\* update) has mutated nothing: the 400 is the request's first and only
\* step, and that step leaves every collection of the store as it was.
C20_ValidationFailureMutatesNothing ==
    [][\A p \in Procs : Answers400(p) =>
          /\ Idle(p)
          /\ store' = store
          /\ accounts' = accounts]_vars

\* A publication without its thumbnail and a self-subscription have been
\* answered with 400 after a video was published, and the store holds the
\* published video and nothing else new.
C20_Witness ==
    \E p, q \in Procs :
        /\ pc[p] = "done" /\ req[p].h = "publishAVideo"
        /\ resp[p] = ApiError(400, "Thumbnail is required")
        /\ pc[q] = "done" /\ req[q].h = "toggleSubscription"
        /\ req[q].actor = req[q].id
        /\ resp[q].statusCode = 400
        /\ "v3" \in DOMAIN videos
        /\ subs = SeedSubs /\ accounts = SeedAccounts


\* The value is a string, not an object.
IsText(value) == DOMAIN value = {"text"}

\* C18: every success response is an envelope built from (status code,
\* payload, message) in that role: it has the fields statusCode, data,
\* message and success, success is true, message holds the text and data
\* holds the payload; for getVideoComments data is the object with comments,
\* totalPages, currentPage and totalComments.
C18_SuccessIsEnvelope ==
    \A p \in Procs :
        (pc[p] = "done" /\ resp[p] # Null /\ resp[p].statusCode < 400) =>
            /\ DOMAIN resp[p] = {"statusCode", "data", "message", "success"}
            /\ resp[p].success
            /\ IsText(resp[p].message)
            /\ ~IsText(resp[p].data)
            /\ req[p].h = "getVideoComments" =>
                  DOMAIN resp[p].data =
                      {"comments", "totalPages", "currentPage", "totalComments"}


\* The answers that report the failure of a cleanup of an external asset:
\* the removal of the old avatar or cover image, and the removal of the
\* uploaded video file after the thumbnail upload failed.
CleanupFailures ==
    {ApiError(500, "Error deleting old avatar from Cloudinary"),
     ApiError(500, "Error deleting old coverImage from Cloudinary"),
     UncaughtError("ReferenceError: cloudinary is not defined")}

\* C21: when a handler attempts the best-effort cleanup of an external asset
\* (publishAVideo, updateVideo, updateUserAvatar, updateUserCoverImage,
\* deleteVideo), the failure of the cleanup is never what the caller is
\* answered with: the answer is the original failure, or the success of the
\* main operation.
C21_CleanupFailureNotReported ==
    \A p \in Procs :
        (pc[p] = "done" /\ resp[p] # Null) => resp[p] \notin CleanupFailures


\* C25: every togglePublishStatus of the owner that is answered with success
\* flips the stored published flag once, as one atomic step: the flag stored
\* after the answering step is the negation of the flag stored before it, so
\* that n successful toggles, sequential or concurrent, leave the original
\* flag flipped n times.
C25_ToggleFlipsStoredFlag ==
    [][\A p \in Procs :
          (/\ Leaves(p, "tp_save")
           /\ resp'[p].statusCode = 200) =>
              /\ videos'[req[p].id].isPublished = ~videos[req[p].id].isPublished
              /\ resp'[p].data.isPublished = videos'[req[p].id].isPublished]_vars


\* C26: a successful refreshAccessToken for an account answers with the
\* refresh credential that is now stored for the account, so that the
\* credential it returns can be presented to the next refreshAccessToken.
C26_RefreshReturnsStoredCredential ==
    [][\A p \in Procs :
          (/\ Leaves(p, "gt_save")
           /\ req[p].h = "refreshAccessToken"
           /\ resp'[p].statusCode = 200) =>
              /\ "refreshToken" \in DOMAIN resp'[p].data
              /\ resp'[p].data.refreshToken = accounts'[loc[p].id].refreshToken]_vars


\* C27: loginUser accepts the username or the email.  A finished loginUser
\* is answered 400 only when its body carries neither identifier, and a
\* body that carries exactly one identifier, that of an existing account,
\* with the password of that account is answered 200.
OneIdentifier(body) ==
    (body.username = Absent) # (body.email = Absent)

C27_LoginAcceptsEitherIdentifier ==
    \A p \in Procs :
        (pc[p] = "done" /\ req[p].h = "loginUser") =>
            LET body == req[p].body
                id == UserFindOne(body.username, body.email)
            IN /\ resp[p].statusCode = 400 =>
                      (body.username = Absent /\ body.email = Absent)
               /\ (/\ OneIdentifier(body)
                   /\ id # NoAccount
                   /\ isPasswordCorrect(id, body.password)) =>
                      resp[p].statusCode = 200


\* C28: addComment by an authenticated actor with non-empty content on an
\* existing video creates exactly one comment (on that video, owned by the
\* actor, with that content) and is answered 201.
C28_AddCommentCreatesOne ==
    [][\A p \in Procs :
          (/\ Leaves(p, "ac_video")
           /\ Exists(videos, req[p].id)) =>
              /\ resp'[p].statusCode = 201
              /\ \E id \in DOMAIN comments' \ DOMAIN comments :
                    /\ DOMAIN comments' = DOMAIN comments \cup {id}
                    /\ comments'[id].video = req[p].id
                    /\ comments'[id].owner = req[p].actor]_vars


\* C29: getLikedVideos of an actor who likes a published video answers 200
\* with exactly the published videos that have a Like of the actor, each
\* record carrying the id, the title and the owner of the video itself.
C29_LikedVideosListed ==
    [][\A p \in Procs :
          (/\ Leaves(p, "lv_paginate")
           /\ LikedPublished(req[p].actor) # {}) =>
              /\ resp'[p].statusCode = 200
              /\ LET docs == resp'[p].data.docs IN
                 /\ {docs[i].id : i \in DOMAIN docs} = LikedPublished(req[p].actor)
                 /\ \A i \in DOMAIN docs :
                       /\ docs[i].title = videos[docs[i].id].title
                       /\ docs[i].owner.id = videos[docs[i].id].owner]_vars


\* C30: getChannelStats of an authenticated actor, whose account exists,
\* answers 200 with the figures of the actor's channel: totalSubscribers,
\* totalVideos (the published videos the channel owns), totalVideoViews
\* and totalLikes.
C30_ChannelStatsAnswered ==
    \A p \in Procs :
        (/\ pc[p] = "done"
         /\ req[p].h = "getChannelStats"
         /\ req[p].actor \in DOMAIN accounts) =>
            /\ resp[p].statusCode = 200
            /\ DOMAIN resp[p].data = DOMAIN ChannelStats(req[p].actor)


\* C22: every handler that acts on behalf of the actor, when it is invoked
\* with no authenticated actor, answers 401 at once and changes nothing in
\* the store.
ActingHandlers ==
    LikeHandlers \cup
    {"addComment", "updateComment", "deleteComment", "getLikedVideos",
     "toggleSubscription", "updateTweet", "deleteTweet", "publishAVideo",
     "updateVideo", "deleteVideo", "togglePublishStatus", "createPlaylist",
     "updatePlaylist", "deletePlaylist", "addVideoToPlaylist",
     "removeVideoFromPlaylist", "getChannelStats", "getChannelVideos"}

C22_NoActorRefused ==
    [][\A p \in Procs :
          (/\ <<pc[p], req[p], resp[p]>> # <<pc'[p], req'[p], resp'[p]>>
           /\ req'[p].actor = NoUser
           /\ req'[p].h \in ActingHandlers) =>
              /\ pc'[p] = "done"
              /\ resp'[p].statusCode = 401
              /\ store' = store
              /\ userStore' = userStore]_vars


\* The page a listing answered with: its records, the total it reports and
\* the number of pages it reports.
ListingResult(rq, rs) ==
    CASE rq.h = "getVideoComments" ->
            [docs |-> rs.message.comments,
             totalDocs |-> rs.message.totalComments,
             totalPages |-> rs.message.totalPages]
      [] rq.h = "getAllVideos" ->
            [docs |-> rs.data.videos,
             totalDocs |-> rs.data.totalDocs,
             totalPages |-> rs.data.totalPages]
      [] rq.h = "getChannelVideos" ->
            [docs |-> rs.data.video,
             totalDocs |-> rs.data.totalDocs,
             totalPages |-> rs.data.totalPages]
      [] OTHER ->
            [docs |-> rs.data.docs,
             totalDocs |-> rs.data.totalDocs,
             totalPages |-> rs.data.totalPages]

\* The number of records that match the listing of slot p.
Matching(p) ==
    CASE req[p].h = "getVideoComments" -> Len(CommentsAggregate(req[p].id))
      [] req[p].h = "getAllVideos" -> Len(VideosAggregate(req[p].id))
      [] req[p].h = "getChannelVideos" -> Cardinality(ChannelVideoIds(req[p].actor))
      [] OTHER -> Cardinality(LikedPublished(req[p].actor))

\* Slot p answers a listing with success in this step.
ListingAnswers(p) ==
    /\ pc[p] \in {"gc_paginate", "av_paginate", "lv_paginate", "cv_paginate"}
    /\ pc'[p] = "done"
    /\ resp'[p].statusCode = 200

\* The page and the limit of the request on slot p, as numbers.
RequestedPage(p) == QueryNumber(req[p].body.page, DefaultPage)
RequestedLimit(p) == QueryNumber(req[p].body.limit, DefaultLimit)

CeilDiv(a, b) == (a + b - 1) \div b

PositiveInteger(number) == ~number.nan /\ number.num >= 1

OrDefault(number, default) ==
    IF PositiveInteger(number) THEN number.num ELSE default

C24_InvalidQueryFallsBack ==
    [][\A p \in Procs :
          (/\ pc[p] \in {"gc_paginate", "av_paginate", "lv_paginate", "cv_paginate"}
           /\ pc'[p] = "done"
           /\ \/ ~PositiveInteger(RequestedPage(p))
              \/ ~PositiveInteger(RequestedLimit(p))) =>
              /\ resp'[p].statusCode = 200
              /\ req[p].h = "getVideoComments" =>
                    resp'[p].message.currentPage =
                        OrDefault(RequestedPage(p), DefaultPage)
              /\ req[p].h = "getAllVideos" =>
                    /\ resp'[p].data.page = OrDefault(RequestedPage(p), DefaultPage)
                    /\ resp'[p].data.limit =
                          OrDefault(RequestedLimit(p), DefaultLimit)]_vars

====
